---------------------------- MODULE Spec2Model ----------------------------
(***************************************************************************)
(* Galileo E6 HAS message receiver (galileo_e6_has_msg_receiver.cc):       *)
(* page accumulation per message id, Reed-Solomon reconstruction, MT1      *)
(* header/body parsing, mask cache, publication to the PVT port.           *)
(*                                                                         *)
(* One handler invocation (msg_handler_galileo_e6_has, which holds         *)
(* d_setlock from its first to its last statement) is one action.          *)
(*                                                                         *)
(* Representation choices:                                                 *)
(*  - a bit string (std::string of '0'/'1') is a sequence over {0,1};      *)
(*  - a uint64_t satellite mask is kept as the 40 bits it was read from    *)
(*    (TLC integers are 32 bits wide);                                     *)
(*  - d_C_matrix[mid] (255 x 53 octets) is kept as the function from the   *)
(*    0-based row index to the row, for the rows that are not all zero;    *)
(*    a row outside the domain is the all-zero row;                        *)
(*  - a vector<vector<bool>> of ns rows and nc columns is the record       *)
(*    [rows, cols, ones] with ones the set of <<s, c>> cells that are true;*)
(*  - d_M_matrix is scratch (reset at every decode before use), so it is a *)
(*    local value of decode_message_type1 rather than a variable.          *)
(***************************************************************************)
EXTENDS Integers, Sequences, FiniteSets, TLC

\* ------------------------------------------------------------------------
\* Program constants (Galileo_CNAV.h; values as used by the receiver)
\* ------------------------------------------------------------------------
GALILEO_CNAV_INFORMATION_VECTOR_LENGTH == 32
GALILEO_CNAV_MAX_NUMBER_SYMBOLS_ENCODED_BLOCK == 255
GALILEO_CNAV_OCTETS_IN_SUBPAGE == 53
GALILEO_CNAV_MT1_HEADER_BITS == 32
HAS_MSG_NUMBER_MESSAGE_IDS == 32
HAS_MSG_NUMBER_MASK_IDS == 32
HAS_MSG_NUMBER_GNSS_IDS == 16
HAS_MSG_NUMBER_SATELLITE_IDS == 40
HAS_MSG_NUMBER_SIGNAL_MASKS == 16
HAS_MSG_NUMBER_MAX_TOH == 3599
HAS_MSG_NSYS_LENGTH == 4
HAS_MSG_ID_MASK_LENGTH == 4
HAS_MSG_SATELLITE_MASK_LENGTH == 40
HAS_MSG_SIGNAL_MASK_LENGTH == 16
HAS_MSG_NAV_MESSAGE_LENGTH == 3
HAS_MSG_MASK_RESERVED_LENGTH == 6
HAS_MSG_VALIDITY_INDEX_LENGTH == 4
HAS_MSG_IOD_GPS_LENGTH == 8
HAS_MSG_IOD_GAL_LENGTH == 10
HAS_MSG_DELTA_RADIAL_LENGTH == 13
HAS_MSG_DELTA_ALONG_TRACK_LENGTH == 12
HAS_MSG_DELTA_CROSS_TRACK_LENGTH == 12
HAS_MSG_DELTA_CLOCK_C0_MULTIPLIER_LENGTH == 2
HAS_MSG_DELTA_CLOCK_C0_LENGTH == 13
HAS_MSG_NSYSPRIME_LENGTH == 4
HAS_MSG_ID_CLOCK_SUBSET_LENGTH == 4
HAS_MSG_DELTA_CLOCK_MULTIPLIER_SUBSET_LENGTH == 2
HAS_MSG_DELTA_CLOCK_C0_SUBSET_LENGTH == 13
HAS_MSG_CODE_BIAS_LENGTH == 11
HAS_MSG_PHASE_BIAS_LENGTH == 11
HAS_MSG_PHASE_DISCONTINUITY_INDICATOR_LENGTH == 2
HAS_MSG_GPS_SYSTEM == 0
HAS_MSG_GALILEO_SYSTEM == 2
\* decode_message_type1: first parity page id, one past the last page id,
\* and the largest number of erasures the (255,32) code recovers
FIRST_PARITY_PID == 33
PID_LIMIT == 256
MAX_ERASURES == 223

\* Header fields as <<offset from the MSB (1-based), width>>
GALILEO_MT1_HEADER_TOH == <<1, 12>>
GALILEO_MT1_HEADER_MASK_ID == <<13, 5>>
GALILEO_MT1_HEADER_IOD_ID == <<18, 5>>
GALILEO_MT1_HEADER_MASK_FLAG == <<23, 1>>
GALILEO_MT1_HEADER_ORBIT_CORRECTION_FLAG == <<24, 1>>
GALILEO_MT1_HEADER_CLOCK_FULLSET_FLAG == <<25, 1>>
GALILEO_MT1_HEADER_CLOCK_SUBSET_FLAG == <<26, 1>>
GALILEO_MT1_HEADER_CODE_BIAS_FLAG == <<27, 1>>
GALILEO_MT1_HEADER_PHASE_BIAS_FLAG == <<28, 1>>
GALILEO_MT1_HEADER_URA_FLAG == <<29, 1>>

PageBits == GALILEO_CNAV_OCTETS_IN_SUBPAGE * 8

\* ------------------------------------------------------------------------
\* Bit utilities
\* ------------------------------------------------------------------------
Pow2(n) == 2 ^ n

Min(a, b) == IF a < b THEN a ELSE b

Zeros(n) == [i \in 1..n |-> 0]

\* std::string::substr(0, n): never throws for pos = 0, yields at most n chars
Substr0(s, n) == SubSeq(s, 1, Min(n, Len(s)))

\* std::count(msg.begin(), msg.end(), '1')
CountOnes(s) == Cardinality({i \in 1..Len(s) : s[i] = 1})

\* The shift-and-insert loop shared by the unsigned readers, in a variable of
\* w bits: value <<= 1; if (bits[j] == '1') value += 1;
RECURSIVE ReadUnsigned(_, _, _, _)
ReadUnsigned(bits, j, value, w) ==
    IF j > Len(bits) THEN value
    ELSE ReadUnsigned(bits, j + 1, ((value * 2) % Pow2(w)) + bits[j], w)

read_has_message_body_uint8(bits) == ReadUnsigned(bits, 1, 0, 8)

read_has_message_body_uint16(bits) == ReadUnsigned(bits, 1, 0, 16)

\* The uint64_t value of a string of at most 40 bits, kept as 40 bits
\* (MSB first): exact, since 40 < 64.
read_has_message_body_uint64(bits) ==
    Zeros(HAS_MSG_SATELLITE_MASK_LENGTH - Len(bits)) \o bits

\* int16_t reader: sign fill from the first bit, then for every bit
\* value *= 2; value &= 0xFFFE; value += bit, all in 16 bits.
\* v is the 16-bit pattern; the result is its two's-complement value.
RECURSIVE ReadInt16Loop(_, _, _)
ReadInt16Loop(bits, j, v) ==
    IF j > Len(bits) THEN v
    ELSE LET shifted == (v * 2) % 65536
             cleared == shifted - (shifted % 2)
         IN  ReadInt16Loop(bits, j + 1, cleared + bits[j])

\* The reader without the sign fill of lines 844-851
ReadWithoutSignFill(bits) == ReadInt16Loop(bits, 1, 0)

read_has_message_body_int16(bits) ==
    LET first == IF Len(bits) > 0 THEN bits[1] ELSE 0   \* bits[0] of "" is '\0'
        v0 == IF first = 1 THEN 65535 ELSE 0
        v == ReadInt16Loop(bits, 1, v0)
    IN  IF v >= 32768 THEN v - 65536 ELSE v

\* Header readers: bit (HEADER_BITS - first - j) of the bitset built from
\* the header string is character first + j - 1 (0-based) of that string.
HeaderBit(header, k) ==
    IF k >= 1 /\ k <= Len(header) THEN header[k] ELSE 0

RECURSIVE HeaderLoop(_, _, _, _, _)
HeaderLoop(header, parameter, j, value, w) ==
    IF j >= parameter[2] THEN value
    ELSE HeaderLoop(header, parameter, j + 1,
                    ((value * 2) % Pow2(w)) + HeaderBit(header, parameter[1] + j), w)

read_has_message_header_parameter_uint16(header, parameter) ==
    HeaderLoop(header, parameter, 0, 0, 16)

read_has_message_header_parameter_uint8(header, parameter) ==
    HeaderLoop(header, parameter, 0, 0, 8)

read_has_message_header_parameter_bool(header, parameter) ==
    HeaderBit(header, parameter[1]) = 1

\* page_string.substr(k * 8, 8), for k * 8 <= size(): at most 8 characters
Bits8(page_string, k) == SubSeq(page_string, k * 8 + 1, Min(k * 8 + 8, Len(page_string)))

\* std::bitset<8>(bits8).to_ulong() for the k-th octet (0-based) of a page
OctetOf(page_string, k) == ReadUnsigned(Bits8(page_string, k), 1, 0, 8)

PageOctets(page_string) ==
    [k \in 1..GALILEO_CNAV_OCTETS_IN_SUBPAGE |-> OctetOf(page_string, k - 1)]

\* Lines 156-157 throw for octet k (0-based): substr throws std::out_of_range
\* when k * 8 is beyond the end of the string, the bitset constructor throws
\* std::invalid_argument for a character that is neither '0' nor '1'
OctetThrows(page_string, k) ==
    \/ k * 8 > Len(page_string)
    \/ \E i \in (k * 8 + 1)..Min(k * 8 + 8, Len(page_string)) : page_string[i] \notin {0, 1}

\* The octets lines 154-160 store before the loop ends or throws
OctetsStored(page_string) ==
    LET thrown == {k \in 0..(GALILEO_CNAV_OCTETS_IN_SUBPAGE - 1) : OctetThrows(page_string, k)}
    IN  IF thrown = {} THEN GALILEO_CNAV_OCTETS_IN_SUBPAGE
        ELSE CHOOSE k \in thrown : \A j \in thrown : k <= j

\* The row of d_C_matrix after lines 154-160, row being what it held and
\* stored the number of octets the loop stores
RowStored(page_string, row, stored) ==
    [k \in 1..GALILEO_CNAV_OCTETS_IN_SUBPAGE |->
        IF k <= stored THEN OctetOf(page_string, k - 1) ELSE row[k]]

\* std::bitset<8>(octet).to_string(), concatenated over the octets of a row
RowBits(row) ==
    [i \in 1..(Len(row) * 8) |->
        (row[((i - 1) \div 8) + 1] \div Pow2(7 - ((i - 1) % 8))) % 2]

ZeroRow == [k \in 1..GALILEO_CNAV_OCTETS_IN_SUBPAGE |-> 0]

RECURSIVE Concat(_)
Concat(seqs) == IF Len(seqs) = 0 THEN << >> ELSE Head(seqs) \o Concat(Tail(seqs))


\* ------------------------------------------------------------------------
\* Data model
\* ------------------------------------------------------------------------
MessageIds == 0..(HAS_MSG_NUMBER_MESSAGE_IDS - 1)

MaskIds == 0..(HAS_MSG_NUMBER_MASK_IDS - 1)

GnssSlots == 0..(HAS_MSG_NUMBER_GNSS_IDS - 1)

\* std::vector<std::vector<bool>>(ns, std::vector<bool>(nc, false))
NewMatrix(ns, nc) == [rows |-> ns, cols |-> nc, ones |-> {}]

\* Galileo_HAS_data(): every vector empty, every scalar zero
Galileo_HAS_data ==
    [header |-> [toh |-> 0, mask_id |-> 0, iod_id |-> 0, mask_flag |-> FALSE,
                 orbit_correction_flag |-> FALSE, clock_fullset_flag |-> FALSE,
                 clock_subset_flag |-> FALSE, code_bias_flag |-> FALSE,
                 phase_bias_flag |-> FALSE, ura_flag |-> FALSE],
     Nsys |-> 0,
     gnss_id_mask |-> << >>,
     satellite_mask |-> << >>,
     signal_mask |-> << >>,
     cell_mask_availability_flag |-> << >>,
     cell_mask |-> << >>,
     nav_message |-> << >>,
     validity_interval_index_orbit_corrections |-> 0,
     gnss_iod |-> << >>,
     delta_radial |-> << >>,
     delta_along_track |-> << >>,
     delta_cross_track |-> << >>,
     validity_interval_index_clock_fullset_corrections |-> 0,
     delta_clock_c0_multiplier |-> << >>,
     iod_change_flag |-> << >>,
     delta_clock_c0 |-> << >>,
     validity_interval_index_clock_subset_corrections |-> 0,
     Nsysprime |-> 0,
     gnss_id_clock_subset |-> << >>,
     delta_clock_c0_multiplier_clock_subset |-> << >>,
     satellite_submask |-> << >>,
     iod_change_flag_clock_subset |-> << >>,
     delta_clock_c0_clock_subset |-> << >>,
     validity_interval_index_code_bias_corrections |-> 0,
     code_bias |-> << >>,
     validity_interval_index_phase_bias_corrections |-> 0,
     phase_bias |-> << >>,
     phase_discontinuity_indicator |-> << >>]

\* The mask tables reserved by the constructor (all zero)
MaskTablesInit ==
    [d_nsat_in_mask_id |-> [m \in MaskIds |-> 0],
     d_nsys_in_mask |-> [m \in MaskIds |-> 0],
     d_gnss_id_in_mask |-> [m \in MaskIds |-> [i \in GnssSlots |-> 0]],
     d_satellite_mask |->
        [m \in MaskIds |-> [i \in GnssSlots |-> Zeros(HAS_MSG_SATELLITE_MASK_LENGTH)]],
     d_signal_mask |-> [m \in MaskIds |-> [i \in GnssSlots |-> 0]],
     d_cell_mask_availability_flag |-> [m \in MaskIds |-> [i \in GnssSlots |-> FALSE]],
     d_cell_mask |->
        [m \in MaskIds |->
            [i \in 1..HAS_MSG_NUMBER_GNSS_IDS |->
                NewMatrix(HAS_MSG_NUMBER_SATELLITE_IDS, HAS_MSG_NUMBER_SIGNAL_MASKS)]],
     d_nav_message_mask |-> [m \in MaskIds |-> [i \in GnssSlots |-> 0]]]

\* ------------------------------------------------------------------------
\* read_MT1_header
\* ------------------------------------------------------------------------
read_MT1_header(message_header) ==
    [toh |-> read_has_message_header_parameter_uint16(message_header, GALILEO_MT1_HEADER_TOH),
     mask_id |-> read_has_message_header_parameter_uint8(message_header, GALILEO_MT1_HEADER_MASK_ID),
     iod_id |-> read_has_message_header_parameter_uint8(message_header, GALILEO_MT1_HEADER_IOD_ID),
     mask_flag |-> read_has_message_header_parameter_bool(message_header, GALILEO_MT1_HEADER_MASK_FLAG),
     orbit_correction_flag |->
        read_has_message_header_parameter_bool(message_header, GALILEO_MT1_HEADER_ORBIT_CORRECTION_FLAG),
     clock_fullset_flag |->
        read_has_message_header_parameter_bool(message_header, GALILEO_MT1_HEADER_CLOCK_FULLSET_FLAG),
     clock_subset_flag |->
        read_has_message_header_parameter_bool(message_header, GALILEO_MT1_HEADER_CLOCK_SUBSET_FLAG),
     code_bias_flag |->
        read_has_message_header_parameter_bool(message_header, GALILEO_MT1_HEADER_CODE_BIAS_FLAG),
     phase_bias_flag |->
        read_has_message_header_parameter_bool(message_header, GALILEO_MT1_HEADER_PHASE_BIAS_FLAG),
     ura_flag |-> read_has_message_header_parameter_bool(message_header, GALILEO_MT1_HEADER_URA_FLAG)]

\* ------------------------------------------------------------------------
\* read_MT1_body.  The parse state st is
\*   message   the bits not yet consumed (the local std::string message)
\*   exc       an exception has been thrown (the rest of the body is skipped)
\*   fault     the parser dereferenced storage it does not own in a way that
\*             has no value to return (element of an empty vector)
\*   unspecified   the reads outside the storage the program owns, by the
\*             name of what they return
\*   Nsat, have_mask, ones_in_satellite_mask, ones_in_signal_mask
\*             the locals of that name
\*   data      d_HAS_data
\*   mask      the mask tables (d_nsat_in_mask_id, d_nsys_in_mask, ...)
\* Every step takes the state the step before it left.
\* ------------------------------------------------------------------------
Stopped(st) == st.exc \/ st.fault

\* message = std::string(message.begin() + n, message.end()): with n beyond
\* the end the range is negative and the constructor throws
\* std::length_error, which decode_message_type1 catches.
Advance(st, n) ==
    IF n > Len(st.message) THEN [st EXCEPT !.exc = TRUE]
    ELSE [st EXCEPT !.message = SubSeq(st.message, n + 1, Len(st.message))]

\* message.substr(0, n)
Take(st, n) == Substr0(st.message, n)

\* message[pos] == '1': pos = size() reads the terminator; the reads beyond
\* it only happen on a path that throws before the value is used.
BitAt(message, pos) == IF pos < Len(message) THEN message[pos + 1] ELSE 0

\* One field: stored is st with the value of the first n bits assigned,
\* then the advance over the n bits
Field(st, stored, n) == IF Stopped(st) THEN st ELSE Advance(stored, n)

\* Lines 381-383
MaskGnssId(st, i) ==
    LET gnss == read_has_message_body_uint8(Take(st, HAS_MSG_ID_MASK_LENGTH))
    IN  Field(st, [st EXCEPT !.data.gnss_id_mask[i + 1] = gnss,
                             !.mask.d_gnss_id_in_mask[st.data.header.mask_id][i] = gnss],
              HAS_MSG_ID_MASK_LENGTH)

\* Lines 385-390
MaskSatellites(st, i) ==
    LET msg == Take(st, HAS_MSG_SATELLITE_MASK_LENGTH)
    IN  Field(st, [st EXCEPT !.data.satellite_mask[i + 1] = read_has_message_body_uint64(msg),
                             !.mask.d_satellite_mask[st.data.header.mask_id][i] =
                                 read_has_message_body_uint64(msg),
                             !.ones_in_satellite_mask = CountOnes(msg),
                             !.Nsat = @ + CountOnes(msg)],
              HAS_MSG_SATELLITE_MASK_LENGTH)

\* Lines 392-396
MaskSignals(st, i) ==
    LET msg == Take(st, HAS_MSG_SIGNAL_MASK_LENGTH)
    IN  Field(st, [st EXCEPT !.data.signal_mask[i + 1] = read_has_message_body_uint16(msg),
                             !.mask.d_signal_mask[st.data.header.mask_id][i] =
                                 read_has_message_body_uint16(msg),
                             !.ones_in_signal_mask = CountOnes(msg)],
              HAS_MSG_SIGNAL_MASK_LENGTH)

\* Lines 398-409
MaskCellFlag(st, i) ==
    LET flag == (Take(st, 1) = <<1>>)
    IN  Field(st, [st EXCEPT !.data.cell_mask[i + 1] =
                                 NewMatrix(st.ones_in_satellite_mask, st.ones_in_signal_mask),
                             !.data.cell_mask_availability_flag[i + 1] = flag,
                             !.mask.d_cell_mask_availability_flag[st.data.header.mask_id][i] = flag],
              1)

\* Lines 411-421
MaskCells(st, i) ==
    Field(st,
          [st EXCEPT !.data.cell_mask[i + 1].ones =
              {c \in (0..(st.ones_in_satellite_mask - 1)) \X (0..(st.ones_in_signal_mask - 1)) :
                  BitAt(st.message, c[1] * st.ones_in_signal_mask + c[2]) = 1}],
          st.ones_in_satellite_mask * st.ones_in_signal_mask)

\* Lines 423-425
MaskNavMessage(st, i) ==
    LET nav == read_has_message_body_uint8(Take(st, HAS_MSG_NAV_MESSAGE_LENGTH))
    IN  Field(st, [st EXCEPT !.data.nav_message[i + 1] = nav,
                             !.mask.d_nav_message_mask[st.data.header.mask_id][i] = nav],
              HAS_MSG_NAV_MESSAGE_LENGTH)

\* One iteration of the mask loop, lines 381-425
MaskSystem(st, i) ==
    MaskNavMessage(
        MaskCells(MaskCellFlag(MaskSignals(MaskSatellites(MaskGnssId(st, i), i), i), i), i), i)

RECURSIVE MaskLoop(_, _)
MaskLoop(st, i) ==
    IF Stopped(st) \/ i >= st.data.Nsys THEN st
    ELSE MaskLoop(MaskSystem(st, i), i + 1)

\* A commit that adds the satellites of the message to the cached count
\* instead of replacing it.
MaskCommitAdding(st) ==
    Field(st, [st EXCEPT !.mask.d_nsat_in_mask_id[st.data.header.mask_id] = @ + st.Nsat,
                         !.mask.d_cell_mask[st.data.header.mask_id] = st.data.cell_mask],
          HAS_MSG_MASK_RESERVED_LENGTH)

\* Lines 427-429: the cached Nsat and cell mask are written once the loop
\* has run to its end
MaskCommit(st) ==
    Field(st, [st EXCEPT !.mask.d_nsat_in_mask_id[st.data.header.mask_id] = st.Nsat,
                         !.mask.d_cell_mask[st.data.header.mask_id] = st.data.cell_mask],
          HAS_MSG_MASK_RESERVED_LENGTH)

\* Lines 367-368
MaskNsys(st) ==
    LET Nsys == read_has_message_body_uint8(Take(st, HAS_MSG_NSYS_LENGTH))
    IN  [st EXCEPT !.data.Nsys = Nsys, !.mask.d_nsys_in_mask[st.data.header.mask_id] = Nsys]

\* Lines 371-377
MaskAllocate(st) ==
    LET s == Advance(st, HAS_MSG_NSYS_LENGTH)
        Nsys == st.data.Nsys
    IN  IF Stopped(s) THEN s
        ELSE [s EXCEPT
                 !.data.gnss_id_mask = [j \in 1..Nsys |-> 0],
                 !.data.cell_mask =
                     [j \in 1..Nsys |->
                         NewMatrix(HAS_MSG_NUMBER_SATELLITE_IDS, HAS_MSG_NUMBER_SIGNAL_MASKS)],
                 !.data.cell_mask_availability_flag = [j \in 1..Nsys |-> FALSE],
                 !.data.nav_message = [j \in 1..Nsys |-> 0],
                 !.data.satellite_mask = [j \in 1..Nsys |-> Zeros(HAS_MSG_SATELLITE_MASK_LENGTH)],
                 !.data.signal_mask = [j \in 1..Nsys |-> 0]]

\* Lines 369-430
MaskBlock(st) ==
    IF st.data.Nsys # 0 THEN MaskCommit(MaskLoop(MaskAllocate(st), 0)) ELSE st

\* Lines 431-434
MaskHave(st) == IF Stopped(st) THEN st ELSE [st EXCEPT !.have_mask = (st.Nsat # 0)]

\* Lines 366-434: mask carried by the message
ReadMask(st) == MaskHave(MaskBlock(MaskNsys(st)))

\* A recall that takes an empty cache entry for a mask.
CachedMaskAlwaysHit(st) == [st EXCEPT !.Nsat = st.mask.d_nsat_in_mask_id[st.data.header.mask_id],
                                      !.have_mask = TRUE]

\* Lines 448-472: mask taken from the tables
CachedMask(st) ==
    LET m == st.data.header.mask_id
        Nsat == st.mask.d_nsat_in_mask_id[m]
        Nsys == st.mask.d_nsys_in_mask[m]
    IN  IF Nsat = 0 THEN [st EXCEPT !.Nsat = 0]
        ELSE [st EXCEPT
                 !.Nsat = Nsat,
                 !.have_mask = TRUE,
                 !.data.Nsys = Nsys,
                 !.data.gnss_id_mask = [j \in 1..Nsys |-> st.mask.d_gnss_id_in_mask[m][j - 1]],
                 !.data.satellite_mask = [j \in 1..Nsys |-> st.mask.d_satellite_mask[m][j - 1]],
                 !.data.signal_mask = [j \in 1..Nsys |-> st.mask.d_signal_mask[m][j - 1]],
                 !.data.cell_mask_availability_flag =
                     [j \in 1..Nsys |-> st.mask.d_cell_mask_availability_flag[m][j - 1]],
                 !.data.cell_mask = st.mask.d_cell_mask[m],
                 !.data.nav_message = [j \in 1..Nsys |-> st.mask.d_nav_message_mask[m][j - 1]]]

\* A gate that drops the mask of the message and keeps the cache entry.
TohGateKeepingCache(st) ==
    IF Stopped(st) THEN st
    ELSE IF st.data.header.toh > HAS_MSG_NUMBER_MAX_TOH THEN [st EXCEPT !.have_mask = FALSE]
         ELSE st

\* A gate that evicts the entries of all mask ids.
TohGateEvictingAll(st) ==
    IF Stopped(st) THEN st
    ELSE IF st.data.header.toh > HAS_MSG_NUMBER_MAX_TOH
         THEN [st EXCEPT !.have_mask = FALSE,
                         !.mask.d_nsat_in_mask_id = [m \in MaskIds |-> 0]]
         ELSE st

\* Lines 474-479: discard data if crazy values
TohGate(st) ==
    IF Stopped(st) THEN st
    ELSE IF st.data.header.toh > HAS_MSG_NUMBER_MAX_TOH
         THEN [st EXCEPT !.have_mask = FALSE,
                         !.mask.d_nsat_in_mask_id[st.data.header.mask_id] = 0]
         ELSE st

\* d_HAS_data.gnss_id_mask[i] for the i-th satellite (0-based), lines 492
\* and 497.  The vector has Nsys elements; for i >= Nsys the read is outside
\* it and yields whatever the heap holds there (orc.gnss_id); an empty
\* vector has no storage at all and the read faults.
GnssIdOfSatellite(st, i, orc) ==
    IF i < Len(st.data.gnss_id_mask) THEN st.data.gnss_id_mask[i + 1]
    ELSE orc.gnss_id

OrbitGnssIdRead(st, i) ==
    IF Stopped(st) THEN st
    ELSE IF Len(st.data.gnss_id_mask) = 0 THEN [st EXCEPT !.fault = TRUE]
    ELSE IF i >= Len(st.data.gnss_id_mask) THEN [st EXCEPT !.unspecified = @ \cup {"gnss_id"}]
    ELSE st

\* Lines 492-496
OrbitIodGps(st, i, orc) ==
    IF Stopped(st) \/ GnssIdOfSatellite(st, i, orc) # HAS_MSG_GPS_SYSTEM THEN st
    ELSE Field(st, [st EXCEPT !.data.gnss_iod[i + 1] =
                       read_has_message_body_uint16(Take(st, HAS_MSG_IOD_GPS_LENGTH))],
               HAS_MSG_IOD_GPS_LENGTH)

\* Lines 497-501
OrbitIodGal(st, i, orc) ==
    IF Stopped(st) \/ GnssIdOfSatellite(st, i, orc) # HAS_MSG_GALILEO_SYSTEM THEN st
    ELSE Field(st, [st EXCEPT !.data.gnss_iod[i + 1] =
                       read_has_message_body_uint16(Take(st, HAS_MSG_IOD_GAL_LENGTH))],
               HAS_MSG_IOD_GAL_LENGTH)

\* Lines 502-503
OrbitDeltaRadial(st, i) ==
    Field(st, [st EXCEPT !.data.delta_radial[i + 1] =
                  read_has_message_body_int16(Take(st, HAS_MSG_DELTA_RADIAL_LENGTH))],
          HAS_MSG_DELTA_RADIAL_LENGTH)

\* Lines 505-506
OrbitDeltaAlongTrack(st, i) ==
    Field(st, [st EXCEPT !.data.delta_along_track[i + 1] =
                  read_has_message_body_int16(Take(st, HAS_MSG_DELTA_ALONG_TRACK_LENGTH))],
          HAS_MSG_DELTA_ALONG_TRACK_LENGTH)

\* Lines 508-509
OrbitDeltaCrossTrack(st, i) ==
    Field(st, [st EXCEPT !.data.delta_cross_track[i + 1] =
                  read_has_message_body_int16(Take(st, HAS_MSG_DELTA_CROSS_TRACK_LENGTH))],
          HAS_MSG_DELTA_CROSS_TRACK_LENGTH)

\* One iteration of the orbit loop, lines 490-510
OrbitSatellite(st, i, orc) ==
    OrbitDeltaCrossTrack(
        OrbitDeltaAlongTrack(
            OrbitDeltaRadial(
                OrbitIodGal(OrbitIodGps(OrbitGnssIdRead(st, i), i, orc), i, orc), i), i), i)

RECURSIVE OrbitLoop(_, _, _)
OrbitLoop(st, i, orc) ==
    IF Stopped(st) \/ i >= st.Nsat THEN st
    ELSE OrbitLoop(OrbitSatellite(st, i, orc), i + 1, orc)

\* Lines 484-485
OrbitValidity(st) ==
    Field(st, [st EXCEPT !.data.validity_interval_index_orbit_corrections =
                  read_has_message_body_uint8(Take(st, HAS_MSG_VALIDITY_INDEX_LENGTH))],
          HAS_MSG_VALIDITY_INDEX_LENGTH)

\* Lines 486-489
OrbitAllocate(st) ==
    IF Stopped(st) THEN st
    ELSE [st EXCEPT !.data.gnss_iod = [j \in 1..st.Nsat |-> 0],
                    !.data.delta_radial = [j \in 1..st.Nsat |-> 0],
                    !.data.delta_along_track = [j \in 1..st.Nsat |-> 0],
                    !.data.delta_cross_track = [j \in 1..st.Nsat |-> 0]]

\* Lines 481-516
ReadOrbit(st, orc) ==
    IF Stopped(st) \/ ~(st.data.header.orbit_correction_flag /\ st.have_mask) THEN st
    ELSE OrbitLoop(OrbitAllocate(OrbitValidity(st)), 0, orc)

\* Lines 521-522
ClockValidity(st) ==
    Field(st, [st EXCEPT !.data.validity_interval_index_clock_fullset_corrections =
                  read_has_message_body_uint8(Take(st, HAS_MSG_VALIDITY_INDEX_LENGTH))],
          HAS_MSG_VALIDITY_INDEX_LENGTH)

\* Lines 525-529
RECURSIVE ClockMultiplierLoop(_, _)
ClockMultiplierLoop(st, i) ==
    IF Stopped(st) \/ i >= st.data.Nsys THEN st
    ELSE ClockMultiplierLoop(
             Field(st, [st EXCEPT !.data.delta_clock_c0_multiplier[i + 1] =
                           read_has_message_body_uint8(
                               Take(st, HAS_MSG_DELTA_CLOCK_C0_MULTIPLIER_LENGTH))],
                   HAS_MSG_DELTA_CLOCK_C0_MULTIPLIER_LENGTH),
             i + 1)

\* Lines 524-529
ClockMultipliers(st) ==
    IF Stopped(st) THEN st
    ELSE ClockMultiplierLoop(
             [st EXCEPT !.data.delta_clock_c0_multiplier = [j \in 1..st.data.Nsys |-> 0]], 0)

\* Lines 535-536
ClockIodChangeFlag(st, i) ==
    Field(st, [st EXCEPT !.data.iod_change_flag[i + 1] = (BitAt(st.message, 0) = 1)], 1)

\* Lines 537-538
ClockDeltaC0(st, i) ==
    Field(st, [st EXCEPT !.data.delta_clock_c0[i + 1] =
                  read_has_message_body_int16(Take(st, HAS_MSG_DELTA_CLOCK_C0_LENGTH))],
          HAS_MSG_DELTA_CLOCK_C0_LENGTH)

\* Lines 533-539
RECURSIVE ClockFullLoop(_, _)
ClockFullLoop(st, i) ==
    IF Stopped(st) \/ i >= st.Nsat THEN st
    ELSE ClockFullLoop(ClockDeltaC0(ClockIodChangeFlag(st, i), i), i + 1)

\* Lines 531-539
ClockDeltas(st) ==
    IF Stopped(st) THEN st
    ELSE ClockFullLoop([st EXCEPT !.data.iod_change_flag = [j \in 1..st.Nsat |-> FALSE],
                                  !.data.delta_clock_c0 = [j \in 1..st.Nsat |-> 0]], 0)

\* Lines 518-543
ReadClockFullset(st) ==
    IF Stopped(st) \/ ~(st.data.header.clock_fullset_flag /\ st.have_mask) THEN st
    ELSE ClockDeltas(ClockMultipliers(ClockValidity(st)))

\* The uint64_t value 1 (1UL), in the 40-bit representation
One40 == Zeros(HAS_MSG_SATELLITE_MASK_LENGTH - 1) \o <<1>>

\* Lines 548-549
SubsetValidity(st) ==
    Field(st, [st EXCEPT !.data.validity_interval_index_clock_subset_corrections =
                  read_has_message_body_uint8(Take(st, HAS_MSG_VALIDITY_INDEX_LENGTH))],
          HAS_MSG_VALIDITY_INDEX_LENGTH)

\* Lines 551-552
SubsetNsysprime(st) ==
    Field(st, [st EXCEPT !.data.Nsysprime =
                  read_has_message_body_uint8(Take(st, HAS_MSG_NSYSPRIME_LENGTH))],
          HAS_MSG_NSYSPRIME_LENGTH)

\* Nsysprime = 0 taken for a block without subsystems
SubsetAbortLeftOut(st) == st

\* Lines 554-559: wrong formatted data, aborting
SubsetAbort(st) ==
    IF Stopped(st) \/ st.data.Nsysprime # 0 THEN st
    ELSE [st EXCEPT !.have_mask = FALSE,
                    !.mask.d_nsat_in_mask_id[st.data.header.mask_id] = 0]

\* Lines 561-565
SubsetAllocate(st) ==
    IF Stopped(st) THEN st
    ELSE [st EXCEPT
             !.data.gnss_id_clock_subset = [j \in 1..st.data.Nsysprime |-> 0],
             !.data.delta_clock_c0_multiplier_clock_subset = [j \in 1..st.data.Nsysprime |-> 0],
             !.data.satellite_submask =
                 [j \in 1..st.data.Nsysprime |->
                     [k \in 1..HAS_MSG_NUMBER_SATELLITE_IDS |-> Zeros(HAS_MSG_SATELLITE_MASK_LENGTH)]],
             !.data.iod_change_flag_clock_subset = [j \in 1..st.data.Nsysprime |-> FALSE],
             !.data.delta_clock_c0_clock_subset = [j \in 1..st.data.Nsysprime |-> 0]]

\* Lines 568-569
SubsetGnssId(st, i) ==
    Field(st, [st EXCEPT !.data.gnss_id_clock_subset[i + 1] =
                  read_has_message_body_uint8(Take(st, HAS_MSG_ID_CLOCK_SUBSET_LENGTH))],
          HAS_MSG_ID_CLOCK_SUBSET_LENGTH)

\* Lines 571-573: uint8_t clock_multiplier + 1, stored in a uint8_t
SubsetMultiplier(st, i) ==
    Field(st, [st EXCEPT !.data.delta_clock_c0_multiplier_clock_subset[i + 1] =
                  (read_has_message_body_uint8(
                       Take(st, HAS_MSG_DELTA_CLOCK_MULTIPLIER_SUBSET_LENGTH)) + 1) % 256],
          HAS_MSG_DELTA_CLOCK_MULTIPLIER_SUBSET_LENGTH)

\* Lines 575-578.  d_HAS_data.satellite_mask[i] is read with i < Nsysprime:
\* for i >= Nsys the read is outside the vector and its population count is
\* whatever the heap holds (orc.sat_pop); an empty vector has no storage
\* and faults.
NumberSatsThisGnssId(st, i, orc) ==
    IF i < Len(st.data.satellite_mask) THEN CountOnes(st.data.satellite_mask[i + 1])
    ELSE orc.sat_pop

\* Lines 580-584: the submask bits of subsystem i, one read per bit
RECURSIVE SubmaskLoop(_, _, _, _)
SubmaskLoop(st, i, j, n) ==
    IF Stopped(st) \/ j >= n THEN st
    ELSE SubmaskLoop(
             Field(st, [st EXCEPT !.data.satellite_submask[i + 1][j + 1] =
                           read_has_message_body_uint64(Take(st, 1))], 1),
             i, j + 1, n)

\* Lines 575-584
SubsetSubmask(st, i, orc) ==
    IF Stopped(st) THEN st
    ELSE IF Len(st.data.satellite_mask) = 0 THEN [st EXCEPT !.fault = TRUE]
    ELSE SubmaskLoop(
             [st EXCEPT !.unspecified = @ \cup (IF i >= Len(st.data.satellite_mask)
                                                THEN {"sat_pop"} ELSE {}),
                        !.data.satellite_submask[i + 1] =
                            [j \in 1..NumberSatsThisGnssId(st, i, orc) |->
                                Zeros(HAS_MSG_SATELLITE_MASK_LENGTH)]],
             i, 0, NumberSatsThisGnssId(st, i, orc))

\* Line 586
Nsatprime(st, i) ==
    Cardinality({j \in 1..Len(st.data.satellite_submask[i + 1]) :
                    st.data.satellite_submask[i + 1][j] = One40})

\* Lines 587-591: every delta of subsystem i is stored at index i
RECURSIVE SubsetDeltaLoop(_, _, _, _)
SubsetDeltaLoop(st, i, j, n) ==
    IF Stopped(st) \/ j >= n THEN st
    ELSE SubsetDeltaLoop(
             Field(st, [st EXCEPT !.data.delta_clock_c0_clock_subset[i + 1] =
                           read_has_message_body_int16(
                               Take(st, HAS_MSG_DELTA_CLOCK_C0_SUBSET_LENGTH))],
                   HAS_MSG_DELTA_CLOCK_C0_SUBSET_LENGTH),
             i, j + 1, n)

SubsetDeltas(st, i) ==
    IF Stopped(st) THEN st ELSE SubsetDeltaLoop(st, i, 0, Nsatprime(st, i))

\* One iteration of the clock subset loop, lines 568-591
ClockSubsetSystem(st, i, orc) ==
    SubsetDeltas(SubsetSubmask(SubsetMultiplier(SubsetGnssId(st, i), i), i, orc), i)

RECURSIVE ClockSubsetLoop(_, _, _)
ClockSubsetLoop(st, i, orc) ==
    IF Stopped(st) \/ i >= st.data.Nsysprime THEN st
    ELSE ClockSubsetLoop(ClockSubsetSystem(st, i, orc), i + 1, orc)

\* Lines 545-599
ReadClockSubset(st, orc) ==
    IF Stopped(st) \/ ~(st.data.header.clock_subset_flag /\ st.have_mask) THEN st
    ELSE ClockSubsetLoop(SubsetAllocate(SubsetAbort(SubsetNsysprime(SubsetValidity(st)))), 0, orc)

\* ------------------------------------------------------------------------
\* Code and phase biases share the walk over (system, satellite, signal)
\* ------------------------------------------------------------------------
\* number_sats[sys] and number_codes[sys] (number_phases[sys]), lines 610-648
\* and 681-719, for sys 1-based
CellMaskOf(st, sys) ==
    IF sys <= Len(st.data.cell_mask) THEN st.data.cell_mask[sys] ELSE NewMatrix(0, 0)

NumberSats(st, sys) ==
    IF st.data.cell_mask_availability_flag[sys]
    THEN CellMaskOf(st, sys).rows
    ELSE CountOnes(st.data.satellite_mask[sys])

NumberSignals(st, sys) ==
    IF st.data.cell_mask_availability_flag[sys]
    THEN CellMaskOf(st, sys).cols
    ELSE CountOnes(RowBits(<<st.data.signal_mask[sys] \div 256, st.data.signal_mask[sys] % 256>>))

\* cell_mask[sys][0].size() with the availability flag set needs a first row
BiasDimsFault(st) ==
    \E sys \in 1..st.data.Nsys :
        st.data.cell_mask_availability_flag[sys] /\ CellMaskOf(st, sys).rows = 0

MaxSignals(st) ==
    LET all == {NumberSignals(st, sys) : sys \in 1..st.data.Nsys} \cup {0}
    IN  CHOOSE x \in all : \A y \in all : y <= x

\* The cell <<s, c>> (0-based) of system sys carries a bias, line 659
CellPresent(st, sys, cell) ==
    (~st.data.cell_mask_availability_flag[sys]) \/ (cell \in CellMaskOf(st, sys).ones)

\* The cells <<sat, c>> (0-based) of system sys for which a bias is read, in
\* reading order: first is the value of sat at the first satellite of sys,
\* ns and nc are number_sats[sys] and number_codes[sys]
CellsOfSystem(st, sys, first, ns, nc) ==
    SelectSeq([k \in 1..(ns * nc) |-> <<first + ((k - 1) \div nc), (k - 1) % nc>>],
              LAMBDA cell : CellPresent(st, sys, <<cell[1] - first, cell[2]>>))

RECURSIVE BiasCellsFrom(_, _, _)
BiasCellsFrom(st, sys, first) ==
    IF sys > st.data.Nsys THEN << >>
    ELSE CellsOfSystem(st, sys, first, NumberSats(st, sys), NumberSignals(st, sys))
             \o BiasCellsFrom(st, sys + 1, first + NumberSats(st, sys))

BiasCells(st) == BiasCellsFrom(st, 1, 0)

\* Lines 604-605
CodeBiasValidity(st) ==
    Field(st, [st EXCEPT !.data.validity_interval_index_code_bias_corrections =
                  read_has_message_body_uint8(Take(st, HAS_MSG_VALIDITY_INDEX_LENGTH))],
          HAS_MSG_VALIDITY_INDEX_LENGTH)

\* Lines 607-650
CodeBiasAllocate(st) ==
    IF Stopped(st) THEN st
    ELSE IF BiasDimsFault(st) THEN [st EXCEPT !.fault = TRUE]
    ELSE [st EXCEPT !.data.code_bias = [j \in 1..st.Nsat |-> [c \in 1..MaxSignals(st) |-> 0]]]

\* Lines 661-662
CodeBiasCell(st, cell) ==
    IF cell[1] >= st.Nsat THEN [st EXCEPT !.fault = TRUE]
    ELSE Field(st, [st EXCEPT !.data.code_bias[cell[1] + 1][cell[2] + 1] =
                       read_has_message_body_int16(Take(st, HAS_MSG_CODE_BIAS_LENGTH))],
               HAS_MSG_CODE_BIAS_LENGTH)

RECURSIVE CodeBiasLoop(_, _, _)
CodeBiasLoop(st, cells, k) ==
    IF Stopped(st) \/ k > Len(cells) THEN st
    ELSE CodeBiasLoop(CodeBiasCell(st, cells[k]), cells, k + 1)

\* Lines 652-667
CodeBiasWalk(st) == IF Stopped(st) THEN st ELSE CodeBiasLoop(st, BiasCells(st), 1)

\* Lines 601-670
ReadCodeBias(st) ==
    IF Stopped(st) \/ ~(st.data.header.code_bias_flag /\ st.have_mask) THEN st
    ELSE CodeBiasWalk(CodeBiasAllocate(CodeBiasValidity(st)))

\* Lines 675-676
PhaseBiasValidity(st) ==
    Field(st, [st EXCEPT !.data.validity_interval_index_phase_bias_corrections =
                  read_has_message_body_uint8(Take(st, HAS_MSG_VALIDITY_INDEX_LENGTH))],
          HAS_MSG_VALIDITY_INDEX_LENGTH)

\* Lines 678-722
PhaseBiasAllocate(st) ==
    IF Stopped(st) THEN st
    ELSE IF BiasDimsFault(st) THEN [st EXCEPT !.fault = TRUE]
    ELSE [st EXCEPT
             !.data.phase_bias = [j \in 1..st.Nsat |-> [c \in 1..MaxSignals(st) |-> 0]],
             !.data.phase_discontinuity_indicator =
                 [j \in 1..st.Nsat |-> [c \in 1..MaxSignals(st) |-> 0]]]

\* Lines 733-734
PhaseBiasCell(st, cell) ==
    IF cell[1] >= st.Nsat THEN [st EXCEPT !.fault = TRUE]
    ELSE Field(st, [st EXCEPT !.data.phase_bias[cell[1] + 1][cell[2] + 1] =
                       read_has_message_body_int16(Take(st, HAS_MSG_PHASE_BIAS_LENGTH))],
               HAS_MSG_PHASE_BIAS_LENGTH)

\* Lines 736-737
PhaseDiscontinuityCell(st, cell) ==
    Field(st, [st EXCEPT !.data.phase_discontinuity_indicator[cell[1] + 1][cell[2] + 1] =
                  read_has_message_body_uint8(
                      Take(st, HAS_MSG_PHASE_DISCONTINUITY_INDICATOR_LENGTH))],
          HAS_MSG_PHASE_DISCONTINUITY_INDICATOR_LENGTH)

RECURSIVE PhaseBiasLoop(_, _, _)
PhaseBiasLoop(st, cells, k) ==
    IF Stopped(st) \/ k > Len(cells) THEN st
    ELSE PhaseBiasLoop(PhaseDiscontinuityCell(PhaseBiasCell(st, cells[k]), cells[k]), cells, k + 1)

\* Lines 724-742
PhaseBiasWalk(st) == IF Stopped(st) THEN st ELSE PhaseBiasLoop(st, BiasCells(st), 1)

\* Lines 672-746
ReadPhaseBias(st) ==
    IF Stopped(st) \/ ~(st.data.header.phase_bias_flag /\ st.have_mask) THEN st
    ELSE PhaseBiasWalk(PhaseBiasAllocate(PhaseBiasValidity(st)))

\* Lines 364-472
ReadOrRecallMask(st) == IF st.data.header.mask_flag THEN ReadMask(st) ELSE CachedMask(st)

\* read_MT1_body, lines 357-760 (the URA block is commented out in the source)
read_MT1_body(message_body, data, mask, orc) ==
    ReadPhaseBias(
        ReadCodeBias(
            ReadClockSubset(
                ReadClockFullset(
                    ReadOrbit(
                        TohGate(
                            ReadOrRecallMask(
                                [message |-> message_body, exc |-> FALSE, fault |-> FALSE,
                                 unspecified |-> {}, Nsat |-> 0, have_mask |-> FALSE,
                                 ones_in_satellite_mask |-> 0, ones_in_signal_mask |-> 0,
                                 data |-> data, mask |-> mask])),
                        orc)),
                orc)))

\* ------------------------------------------------------------------------
\* decode_message_type1
\* ------------------------------------------------------------------------
\* d_C_matrix[mid] with every row zero
EmptyMatrix == [k \in {} |-> ZeroRow]

CRow(Cm, idx) == IF idx \in DOMAIN Cm THEN Cm[idx] ELSE ZeroRow

SetRow(Cm, idx, row) ==
    [k \in (DOMAIN Cm \cup {idx}) \ (IF row = ZeroRow THEN {idx} ELSE {}) |->
        IF k = idx THEN row ELSE Cm[k]]

PidSet(pid_list) == {pid_list[j] : j \in 1..Len(pid_list)}

\* The first loop left out
ErasurePositionsOfParityOnly(received, message_size) ==
    LET parity == SelectSeq([j \in 1..(PID_LIMIT - FIRST_PARITY_PID) |-> FIRST_PARITY_PID + j - 1],
                            LAMBDA i : i \notin PidSet(received))
    IN  [j \in 1..Len(parity) |-> parity[j] - 1]

\* The first loop run over all 32 information positions
ErasurePositionsOfAllInformation(received, message_size) ==
    LET both == SelectSeq([i \in 1..(PID_LIMIT - 1) |-> i], LAMBDA i : i \notin PidSet(received))
    IN  [j \in 1..Len(both) |-> both[j] - 1]

\* Lines 193-210: erasure positions, in the order the two loops push them
ErasurePositions(received, message_size) ==
    LET info == SelectSeq([i \in 1..message_size |-> i],
                          LAMBDA i : i \notin PidSet(received))
        parity == SelectSeq([j \in 1..(PID_LIMIT - FIRST_PARITY_PID) |-> FIRST_PARITY_PID + j - 1],
                            LAMBDA i : i \notin PidSet(received))
        both == info \o parity
    IN  [j \in 1..Len(both) |-> both[j] - 1]

\* The limit of line 212 taken one too low
TooManyErasuresAtLimit(erasure_positions) == Len(erasure_positions) >= MAX_ERASURES

\* The limit of line 212 taken one too high
TooManyErasuresOffByOne(erasure_positions) == Len(erasure_positions) > MAX_ERASURES + 1

\* Line 212
TooManyErasures(erasure_positions) == Len(erasure_positions) > MAX_ERASURES

\* Lines 240-244 for all 53 columns at once: the rows handed to the codec,
\* by 0-based position; positions of pages not received are zero
CodecInput(Cm, received) ==
    [idx \in {pid - 1 : pid \in PidSet(received)} |-> CRow(Cm, idx)]

\* Every row of d_M_matrix read, whatever the message size
DecodedStringOfAllRows(M, message_size) ==
    Concat([row \in 1..GALILEO_CNAV_INFORMATION_VECTOR_LENGTH |-> RowBits(M[row])])

\* Lines 266-276: rows 0..message_size-1 of d_M_matrix, each octet MSB first
DecodedString(M, message_size) ==
    Concat([row \in 1..message_size |-> RowBits(M[row])])

\* ------------------------------------------------------------------------
\* The transmitter: MT1 messages built field by field (the mirror of the
\* parser), cut into 424-bit pages, with their Reed-Solomon codewords
\* ------------------------------------------------------------------------
EncU(v, n) == [i \in 1..n |-> (v \div Pow2(n - i)) % 2]

EncI(v, n) == EncU((v + Pow2(n)) % Pow2(n), n)

\* flags = <<mask, orbit, clock full-set, clock subset, code bias, phase bias, ura>>
EncHeader(toh, mask_id, iod_id, flags) ==
    EncU(toh, 12) \o EncU(mask_id, 5) \o EncU(iod_id, 5) \o flags
        \o Zeros(GALILEO_CNAV_MT1_HEADER_BITS - 29)

EncSatMask(prns) == [i \in 1..HAS_MSG_SATELLITE_MASK_LENGTH |-> IF i \in prns THEN 1 ELSE 0]

EncSigMask(sigs) == [i \in 1..HAS_MSG_SIGNAL_MASK_LENGTH |-> IF (i - 1) \in sigs THEN 1 ELSE 0]

EncMaskSystem(gnss, prns, sigs, cmaf, cells, nav) ==
    EncU(gnss, 4) \o EncSatMask(prns) \o EncSigMask(sigs) \o <<cmaf>> \o cells \o EncU(nav, 3)

EncOrbitSat(iod_bits, iod, radial, along, cross) ==
    EncU(iod, iod_bits) \o EncI(radial, 13) \o EncI(along, 12) \o EncI(cross, 12)

Pad(bits, size) == bits \o Zeros(size * PageBits - Len(bits))

\* One system (Galileo), PRN 10, signal 0, no cell mask: Nsat = 1
BodyMaskE10 ==
    EncU(1, 4) \o EncMaskSystem(HAS_MSG_GALILEO_SYSTEM, {10}, {0}, 0, <<0>>, 0)
        \o Zeros(HAS_MSG_MASK_RESERVED_LENGTH)

\* Two systems: GPS PRN 3, 7, signals 0, 1 with a cell mask; Galileo PRN 10,
\* signal 0 without one: Nsat = 3
BodyMaskTwoSystems ==
    EncU(2, 4)
        \o EncMaskSystem(HAS_MSG_GPS_SYSTEM, {3, 7}, {0, 1}, 1, <<1, 0, 1, 1>>, 0)
        \o EncMaskSystem(HAS_MSG_GALILEO_SYSTEM, {10}, {0}, 0, <<1>>, 1)
        \o Zeros(HAS_MSG_MASK_RESERVED_LENGTH)

BodyOrbitE10 == EncU(5, 4) \o EncOrbitSat(HAS_MSG_IOD_GAL_LENGTH, 77, -1, 5, -7)

BodyOrbitTwoSystems ==
    EncU(5, 4) \o EncOrbitSat(HAS_MSG_IOD_GPS_LENGTH, 200, -1, 5, -7)
        \o EncOrbitSat(HAS_MSG_IOD_GPS_LENGTH, 201, 100, -2048, 2047)
        \o EncOrbitSat(HAS_MSG_IOD_GAL_LENGTH, 700, -4096, 0, 1)

BodyClockFullTwoSystems ==
    EncU(6, 4) \o EncU(1, 2) \o EncU(3, 2)
        \o <<1>> \o EncI(-3, 13) \o <<0>> \o EncI(4, 13) \o <<1>> \o EncI(4095, 13)

\* Nsysprime = 1: GPS, submask 10 of its two satellites, one delta
BodyClockSubsetTwoSystems ==
    EncU(7, 4) \o EncU(1, 4) \o EncU(HAS_MSG_GPS_SYSTEM, 4) \o EncU(2, 2) \o <<1, 0>> \o EncI(-9, 13)

\* GPS cells (0,0), (1,0), (1,1), Galileo cell (0,0)
BodyCodeBiasTwoSystems ==
    EncU(8, 4) \o EncI(-1, 11) \o EncI(2, 11) \o EncI(-1024, 11) \o EncI(1023, 11)

BodyPhaseBiasTwoSystems ==
    EncU(9, 4) \o EncI(-1, 11) \o EncU(1, 2) \o EncI(2, 11) \o EncU(2, 2)
        \o EncI(-1024, 11) \o EncU(3, 2) \o EncI(1023, 11) \o EncU(0, 2)

\* A message on air: its bits, and the 53 octets of each of its size pages
Codeword(id, size, bits) ==
    [id |-> id, size |-> size, bits |-> bits,
     rows |-> [pid \in 1..size |->
                  PageOctets(SubSeq(bits, (pid - 1) * PageBits + 1, pid * PageBits))]]

\* The messages on air: id, number of pages, bits
MsgMask ==
    Codeword(1, 1,
        Pad(EncHeader(1545, 3, 1, <<1, 0, 0, 0, 0, 0, 0>>) \o BodyMaskE10, 1))

MsgCorr ==
    Codeword(2, 1,
        Pad(EncHeader(1550, 3, 1, <<0, 1, 0, 0, 0, 0, 0>>) \o BodyOrbitE10, 1))

MsgFull ==
    Codeword(3, 2,
        Pad(EncHeader(1555, 4, 2, <<1, 1, 1, 1, 1, 1, 0>>) \o BodyMaskTwoSystems
            \o BodyOrbitTwoSystems \o BodyClockFullTwoSystems
            \o BodyClockSubsetTwoSystems \o BodyCodeBiasTwoSystems
            \o BodyPhaseBiasTwoSystems, 2))

\* Nsys = 7 needs 4 + 7 * 64 bits of mask, more than the 392 of a one-page body
MsgUnderrun ==
    Codeword(4, 1,
        Pad(EncHeader(1560, 3, 1, <<1, 0, 0, 0, 0, 0, 0>>) \o EncU(7, 4), 1))

MsgToh ==
    Codeword(5, 1,
        Pad(EncHeader(3700, 3, 1, <<1, 0, 0, 0, 0, 0, 0>>) \o BodyMaskE10, 1))

\* Corrections under the mask of MsgMask, with a time of hour out of range
MsgTohCorr ==
    Codeword(9, 1,
        Pad(EncHeader(3800, 3, 1, <<0, 1, 0, 0, 0, 0, 0>>) \o BodyOrbitE10, 1))

MsgNsys0 ==
    Codeword(6, 1,
        Pad(EncHeader(1570, 3, 1, <<1, 0, 0, 0, 0, 0, 0>>) \o EncU(0, 4), 1))

\* A clock subset block with Nsysprime = 0, then the code and the phase bias
\* of the one cell of the mask of MsgMask
MsgSubset0 ==
    Codeword(7, 1,
        Pad(EncHeader(1580, 3, 1, <<0, 0, 0, 1, 1, 1, 0>>) \o EncU(7, 4) \o EncU(0, 4)
            \o EncU(8, 4) \o EncI(-5, 11) \o EncU(9, 4) \o EncI(6, 11) \o EncU(1, 2), 1))

\* A mask of one system that is neither GPS nor Galileo (gnss id 1), PRN 5,
\* signal 0, and the orbit corrections of its satellite, sent without an IOD
MsgOtherSystem ==
    Codeword(10, 1,
        Pad(EncHeader(1600, 6, 1, <<1, 1, 0, 0, 0, 0, 0>>)
            \o EncU(1, 4) \o EncMaskSystem(1, {5}, {0}, 0, <<0>>, 0)
            \o Zeros(HAS_MSG_MASK_RESERVED_LENGTH)
            \o EncU(5, 4) \o EncI(-1, 13) \o EncI(5, 12) \o EncI(-7, 12), 1))

\* A mask of one system, GPS with PRN 3 and 7, signal 0, and a clock subset
\* block of one subsystem with both satellites in its submask: two deltas
MsgSubsetOfTwo ==
    Codeword(11, 1,
        Pad(EncHeader(1610, 7, 1, <<1, 0, 0, 1, 0, 0, 0>>)
            \o EncU(1, 4) \o EncMaskSystem(HAS_MSG_GPS_SYSTEM, {3, 7}, {0}, 0, <<0, 0>>, 0)
            \o Zeros(HAS_MSG_MASK_RESERVED_LENGTH)
            \o EncU(7, 4) \o EncU(1, 4) \o EncU(HAS_MSG_GPS_SYSTEM, 4) \o EncU(2, 2) \o <<1, 1>>
            \o EncI(-9, 13) \o EncI(11, 13), 1))

\* The mask of MsgMask under mask id 9 and a clock subset block of two
\* subsystems, one more than the mask has systems
MsgSubsetBeyond ==
    Codeword(14, 1,
        Pad(EncHeader(1630, 9, 1, <<1, 0, 0, 1, 0, 0, 0>>) \o BodyMaskE10
            \o EncU(7, 4) \o EncU(2, 4)
            \o EncU(HAS_MSG_GALILEO_SYSTEM, 4) \o EncU(1, 2) \o <<1>> \o EncI(-9, 13)
            \o EncU(HAS_MSG_GPS_SYSTEM, 4) \o EncU(2, 2) \o <<1, 1>> \o EncI(3, 13) \o EncI(4, 13), 1))

\* A mask of two systems under mask id 10: GPS with no satellite, signal 0
\* and the cell mask availability flag set, Galileo with PRN 10 and signal 0;
\* then the code bias of the one cell
MsgEmptySystem ==
    Codeword(15, 1,
        Pad(EncHeader(1640, 10, 1, <<1, 0, 0, 0, 1, 0, 0>>)
            \o EncU(2, 4)
            \o EncMaskSystem(HAS_MSG_GPS_SYSTEM, {}, {0}, 1, << >>, 0)
            \o EncMaskSystem(HAS_MSG_GALILEO_SYSTEM, {10}, {0}, 0, <<0>>, 0)
            \o Zeros(HAS_MSG_MASK_RESERVED_LENGTH)
            \o EncU(8, 4) \o EncI(-5, 11), 1))

\* The mask of MsgMask under mask id 8, in a message of two pages
MsgMaskOfTwoPages ==
    Codeword(12, 2,
        Pad(EncHeader(1620, 8, 1, <<1, 0, 0, 0, 0, 0, 0>>) \o BodyMaskE10, 2))

\* Orbit corrections under the mask of mask id 8, in a message of three pages
MsgCorrOfThreePages ==
    Codeword(13, 3,
        Pad(EncHeader(1625, 8, 1, <<0, 1, 0, 0, 0, 0, 0>>) \o BodyOrbitE10, 3))

\* A three-page message: GPS PRN 3 and Galileo PRN 10, all 16 signals each,
\* no cell mask, every correction block present
AllSignals == 0..(HAS_MSG_SIGNAL_MASK_LENGTH - 1)

BodyMaskGE ==
    EncU(2, 4)
        \o EncMaskSystem(HAS_MSG_GPS_SYSTEM, {3}, AllSignals, 0, Zeros(HAS_MSG_SIGNAL_MASK_LENGTH), 0)
        \o EncMaskSystem(HAS_MSG_GALILEO_SYSTEM, {10}, AllSignals, 0, Zeros(HAS_MSG_SIGNAL_MASK_LENGTH), 1)
        \o Zeros(HAS_MSG_MASK_RESERVED_LENGTH)

BodyOrbitGE ==
    EncU(5, 4) \o EncOrbitSat(HAS_MSG_IOD_GPS_LENGTH, 200, -1, 5, -7)
        \o EncOrbitSat(HAS_MSG_IOD_GAL_LENGTH, 700, -4096, 0, 1)

BodyClockFullGE ==
    EncU(6, 4) \o EncU(1, 2) \o EncU(3, 2) \o <<1>> \o EncI(-3, 13) \o <<0>> \o EncI(4, 13)

BodyClockSubsetGE ==
    EncU(7, 4) \o EncU(1, 4) \o EncU(HAS_MSG_GPS_SYSTEM, 4) \o EncU(2, 2) \o <<1>> \o EncI(-9, 13)

BodyCodeBiasGE ==
    EncU(8, 4) \o Concat([j \in 1..(2 * HAS_MSG_SIGNAL_MASK_LENGTH) |-> EncI(j - 16, 11)])

BodyPhaseBiasGE ==
    EncU(9, 4)
        \o Concat([j \in 1..(2 * HAS_MSG_SIGNAL_MASK_LENGTH) |-> EncI(16 - j, 11) \o EncU(j % 4, 2)])

MsgClean ==
    Codeword(8, 3,
        Pad(EncHeader(1590, 5, 3, <<1, 1, 1, 1, 1, 1, 0>>) \o BodyMaskGE
            \o BodyOrbitGE \o BodyClockFullGE \o BodyClockSubsetGE
            \o BodyCodeBiasGE \o BodyPhaseBiasGE, 3))

Codewords ==
    {MsgMask, MsgCorr, MsgFull, MsgUnderrun, MsgToh, MsgTohCorr, MsgNsys0, MsgSubset0, MsgClean,
     MsgOtherSystem, MsgSubsetOfTwo, MsgMaskOfTwoPages, MsgCorrOfThreePages,
     MsgSubsetBeyond, MsgEmptySystem}

\* A page payload that the codec cannot decode
CorruptRow == [k \in 1..GALILEO_CNAV_OCTETS_IN_SUBPAGE |-> 255]

\* The parity symbols of a codeword stand for the real ones: a row that
\* names the codeword and the page id
ParityRow(w, pid) == [k \in 1..GALILEO_CNAV_OCTETS_IN_SUBPAGE |-> (w.id * 16 + pid + k) % 256]

\* The 53 octets page pid of codeword w carries
Symbol(w, pid) ==
    IF pid <= w.size THEN w.rows[pid]
    ELSE IF pid <= GALILEO_CNAV_INFORMATION_VECTOR_LENGTH THEN ZeroRow
    ELSE ParityRow(w, pid)

\* ------------------------------------------------------------------------
\* ReedSolomon::decode (reed_solomon.h), for the 53 columns of one message.
\* Contract: it fails, or it succeeds and the first 32 positions hold the
\* information symbols.  A position that is not erased keeps its symbol; an
\* erased information position is restored from the codeword the received
\* symbols belong to.  Received symbols that belong to no codeword on air
\* restore to something unrelated (orc.rs_row).
\* ------------------------------------------------------------------------
ReedSolomonFails(input) == \E idx \in DOMAIN input : input[idx] = CorruptRow

ConsistentCodewords(input) ==
    {w \in Codewords : \A idx \in DOMAIN input : input[idx] = Symbol(w, idx + 1)}

ReedSolomonDecode(input, erasure_positions, orc) ==
    LET erased == {erasure_positions[j] : j \in 1..Len(erasure_positions)}
        fits == ConsistentCodewords(input)
        restored(idx) == IF fits # {} THEN Symbol(CHOOSE w \in fits : TRUE, idx + 1)
                         ELSE orc.rs_row
        lost == {idx \in erased : idx < GALILEO_CNAV_INFORMATION_VECTOR_LENGTH} \ DOMAIN input
    IN  [result |-> IF ReedSolomonFails(input) THEN -1 ELSE 0,
         unspecified |-> IF fits = {} /\ lost # {} THEN {"rs_row"} ELSE {},
         M |-> [row \in 1..GALILEO_CNAV_INFORMATION_VECTOR_LENGTH |->
                   IF (row - 1) \in DOMAIN input THEN input[row - 1]
                   ELSE IF (row - 1) \in erased THEN restored(row - 1)
                   ELSE ZeroRow]]

\* decode_message_type1, lines 189-325.  The result names what the call did:
\*   res      the value returned (0 or -1)
\*   outcome  "TooManyErasures", "RSFailure", "Malformed", "ok" or "fault"
\*   pids, Cm the slot of message_id afterwards
\*   data     d_HAS_data afterwards, mask the mask tables afterwards
\*   monitor  the packets published on Nav_msg_from_TLM
\*   decoded  decoded_message_type_1, if the call got as far as forming it
\*   unspecified   the values the result rests on that the program does not
\*                 determine

\* The list of page ids left as it was
KeptPids(pids) == pids

\* Lines 214 and 292: d_received_pids[message_id].clear()
ClearedPids(pids) == << >>

\* Lines 215-226 and 293: every row of d_C_matrix[message_id] set to zero
ZeroedMatrix(Cm) == EmptyMatrix

\* Lines 212-228
DecodeTooManyErasures(nerasures, pids, Cm, data, mask) ==
    [nerasures |-> nerasures, rs_invoked |-> FALSE, unspecified |-> {},
     pids |-> ClearedPids(pids), Cm |-> ZeroedMatrix(Cm), data |-> data, mask |-> mask,
     monitor |-> << >>, res |-> -1, outcome |-> "TooManyErasures", decoded |-> << >>]

\* Lines 248-252: the slot is left as it is
DecodeRSFailure(nerasures, pids, Cm, data, mask) ==
    [nerasures |-> nerasures, rs_invoked |-> TRUE, unspecified |-> {},
     pids |-> pids, Cm |-> Cm, data |-> data, mask |-> mask,
     monitor |-> << >>, res |-> -1, outcome |-> "RSFailure", decoded |-> << >>]

\* Lines 284-289
MonitorPackets(enable_monitor, decoded_message_type_1) ==
    IF enable_monitor THEN <<decoded_message_type_1>> ELSE << >>

\* The handlers of the try block absorbing the exception without a return
ReturnAbsorbingException(st) == 0

\* Lines 302-324: every handler of the try block returns -1, the end of the
\* function 0
ParseResult(st) == IF Stopped(st) THEN -1 ELSE 0

\* Lines 292-324, st being what read_MT1_body left
DecodeParsed(nerasures, pids, Cm, packets, rs_unspecified, st) ==
    [nerasures |-> nerasures, rs_invoked |-> TRUE,
     unspecified |-> (rs_unspecified \cup st.unspecified),
     pids |-> ClearedPids(pids), Cm |-> ZeroedMatrix(Cm), data |-> st.data, mask |-> st.mask,
     monitor |-> packets,
     res |-> ParseResult(st),
     outcome |-> IF st.fault THEN "fault" ELSE IF st.exc THEN "Malformed" ELSE "ok",
     decoded |-> << >>]

\* Lines 296-300: d_HAS_data = Galileo_HAS_data(), then header and body
ParseMessage(decoded_message_type_1, mask, orc) ==
    read_MT1_body(
        SubSeq(decoded_message_type_1, GALILEO_CNAV_MT1_HEADER_BITS + 1, Len(decoded_message_type_1)),
        [Galileo_HAS_data EXCEPT
            !.header = read_MT1_header(Substr0(decoded_message_type_1, GALILEO_CNAV_MT1_HEADER_BITS))],
        mask, orc)

\* Lines 266-324
DecodeMessage(nerasures, pids, Cm, mask, enable_monitor, rs_unspecified, decoded_message_type_1, orc) ==
    [DecodeParsed(nerasures, pids, Cm, MonitorPackets(enable_monitor, decoded_message_type_1),
                  rs_unspecified, ParseMessage(decoded_message_type_1, mask, orc))
        EXCEPT !.decoded = decoded_message_type_1]

\* Lines 238-324, rs being what the codec returned
DecodeCodec(nerasures, pids, Cm, data, mask, message_size, enable_monitor, rs, orc) ==
    IF rs.result < 0 THEN DecodeRSFailure(nerasures, pids, Cm, data, mask)
    ELSE DecodeMessage(nerasures, pids, Cm, mask, enable_monitor, rs.unspecified,
                       DecodedString(rs.M, message_size), orc)

DecodeErasures(erasure_positions, pids, Cm, data, mask, message_size, enable_monitor, orc) ==
    IF TooManyErasures(erasure_positions)
    THEN DecodeTooManyErasures(Len(erasure_positions), pids, Cm, data, mask)
    ELSE DecodeCodec(Len(erasure_positions), pids, Cm, data, mask, message_size, enable_monitor,
                     ReedSolomonDecode(CodecInput(Cm, pids), erasure_positions, orc), orc)

decode_message_type1(pids, Cm, data, mask, message_size, enable_monitor, orc) ==
    DecodeErasures(ErasurePositions(pids, message_size), pids, Cm, data, mask, message_size,
                   enable_monitor, orc)

\* ------------------------------------------------------------------------
\* State
\* ------------------------------------------------------------------------
VARIABLES
    d_received_pids,           \* [message id -> sequence of page ids]
    d_C_matrix,                \* [message id -> rows received]
    d_mask,                    \* the mask tables
    d_HAS_data,                \* the last decoded message
    d_new_message,             \* a decoded message waits to be published
    d_enable_navdata_monitor,  \* set_enable_navdata_monitor
    fault,                     \* the process has left defined behaviour, or
                               \* an exception has ended the block's thread
    feed,                      \* which pages are on air in this behaviour
    ev,                        \* what the last handler invocation did
    d_setlock,                 \* the thread that holds the block's mutex
    threads,                   \* where each scheduler thread is in the handler
    call                       \* a member function called on its own: its
                               \* arguments and what it returned

vars == <<d_received_pids, d_C_matrix, d_mask, d_HAS_data, d_new_message,
          d_enable_navdata_monitor, fault, feed, ev, d_setlock, threads, call>>

\* The members of the block and the threads that run its handler
receiver == <<d_received_pids, d_C_matrix, d_mask, d_HAS_data, d_new_message,
              d_enable_navdata_monitor, fault, feed, ev, d_setlock, threads>>

\* ------------------------------------------------------------------------
\* Pages on air
\* ------------------------------------------------------------------------
\* Parity pages offered to the receiver: 33 .. 32 + ParityPagesOnAir
ParityPagesOnAir == 2

ParityPids == FIRST_PARITY_PID..(FIRST_PARITY_PID + ParityPagesOnAir - 1)

Galileo_HAS_page(status, type, mid, size, pid, row) ==
    [has_status |-> status, message_type |-> type, message_id |-> mid,
     message_size |-> size, message_page_id |-> pid, has_message_string |-> RowBits(row)]

Feeds == {"clean", "screen", "erasure", "rsfail", "parse", "orbit", "corrupt", "sizes",
          "parity"}

\* One message of three pages
PagesClean ==
    {Galileo_HAS_page(0, 1, 5, MsgClean.size, pid, Symbol(MsgClean, pid)) : pid \in 1..MsgClean.size}

\* Pages that pass the screening, and pages that break one rule of it
ScreenFields ==
    {<<0, 1, 0>>, <<1, 1, 0>>, <<2, 1, 0>>, <<0, 2, 0>>, <<0, 1, 32>>} \X {1, 2} \X {1, 2}
        \cup {<<0, 1, 0>>} \X {1, 2} \X {0}

PagesScreen ==
    {Galileo_HAS_page(x[1][1], x[1][2], x[1][3], x[2], x[3],
                      Symbol(MsgMask, IF x[3] = 0 THEN 1 ELSE x[3])) : x \in ScreenFields}

\* Information pages, a page id between the message size and 32, parity pages
PagesErasure ==
    {Galileo_HAS_page(0, 1, 1, MsgClean.size, pid, Symbol(MsgClean, pid)) :
        pid \in {1, 2, 4} \cup ParityPids}

\* The pages of a message, and its last page damaged beyond the codec
PagesRsfail ==
    {Galileo_HAS_page(0, 1, 2, MsgClean.size, pid, Symbol(MsgClean, pid)) : pid \in 1..MsgClean.size}
        \cup {Galileo_HAS_page(0, 1, 2, MsgClean.size, MsgClean.size, CorruptRow)}

\* One-page messages, well formed and not
PagesParse ==
    {Galileo_HAS_page(0, 1, 0, w.size, 1, Symbol(w, 1)) :
        w \in {MsgMask, MsgCorr, MsgUnderrun, MsgToh, MsgTohCorr, MsgNsys0, MsgSubset0}}

\* A message with more satellites than systems, one with a system that is
\* neither GPS nor Galileo, and one with two satellites in a clock subset
PagesOrbit ==
    {Galileo_HAS_page(0, 1, 3, MsgFull.size, pid, Symbol(MsgFull, pid)) : pid \in 1..MsgFull.size}
        \cup {Galileo_HAS_page(0, 1, 4, MsgOtherSystem.size, 1, Symbol(MsgOtherSystem, 1)),
               Galileo_HAS_page(0, 1, 5, MsgSubsetOfTwo.size, 1, Symbol(MsgSubsetOfTwo, 1))}

\* A payload that is no string of 424 binary digits: cut short, or with
\* another character (2) in it
ShortPayload(page_string, n) == SubSeq(page_string, 1, n)

ForeignCharacter(page_string, at) == [page_string EXCEPT ![at] = 2]

\* A page of a two-page message, and second pages whose payload is damaged
PagesCorrupt ==
    {Galileo_HAS_page(0, 1, 4, 2, 1, Symbol(MsgMask, 1))}
        \cup {[Galileo_HAS_page(0, 1, 4, 2, 2, ZeroRow) EXCEPT !.has_message_string = payload] :
                 payload \in {ShortPayload(RowBits(Symbol(MsgMask, 1)), 100),
                              ShortPayload(RowBits(Symbol(MsgMask, 1)), PageBits - 8),
                              ForeignCharacter(RowBits(Symbol(MsgMask, 1)), 21)}}

\* Pages of one message id that disagree on the message size: <<size, pid>>
PagesSizes ==
    {Galileo_HAS_page(0, 1, 6, x[1], x[2], Symbol(MsgClean, x[2])) :
        x \in {<<3, 1>>, <<2, 2>>, <<3, 3>>}}

\* The pages of the codeword of a one-page message: page 1 and parity pages
PagesParity ==
    {Galileo_HAS_page(0, 1, 7, MsgMask.size, pid, Symbol(MsgMask, pid)) :
        pid \in (1..MsgMask.size) \cup ParityPids}

\* The pages the scheduler's threads deliver: one-page messages that write
\* and read the same mask, and the pages of a three-page message
PagesThreads ==
    {Galileo_HAS_page(0, 1, 0, w.size, 1, Symbol(w, 1)) : w \in {MsgMask, MsgCorr, MsgTohCorr}}
        \cup PagesClean

\* Two messages on air at once under different message ids, the second
\* one with corrections under the mask the first one carries
StreamOfMask == MsgMaskOfTwoPages.id

StreamOfCorr == MsgCorrOfThreePages.id

PagesStreams ==
    {Galileo_HAS_page(0, 1, StreamOfMask, MsgMaskOfTwoPages.size, pid, Symbol(MsgMaskOfTwoPages, pid)) :
        pid \in 1..MsgMaskOfTwoPages.size}
        \cup {Galileo_HAS_page(0, 1, StreamOfCorr, MsgCorrOfThreePages.size, pid,
                                Symbol(MsgCorrOfThreePages, pid)) :
                  pid \in 1..MsgCorrOfThreePages.size}

\* One-page messages under several mask ids: masks that are stored, a mask
\* that is evicted, one whose parse fails, and corrections under a mask
PagesMasks ==
    {Galileo_HAS_page(0, 1, 0, w.size, 1, Symbol(w, 1)) :
        w \in {MsgMask, MsgCorr, MsgToh, MsgUnderrun, MsgOtherSystem, MsgSubsetOfTwo,
                MsgSubsetBeyond, MsgEmptySystem}}

Pages(f) ==
    CASE f = "clean" -> PagesClean
      [] f = "screen" -> PagesScreen
      [] f = "erasure" -> PagesErasure
      [] f = "rsfail" -> PagesRsfail
      [] f = "parse" -> PagesParse
      [] f = "orbit" -> PagesOrbit
      [] f = "corrupt" -> PagesCorrupt
      [] f = "sizes" -> PagesSizes
      [] f = "parity" -> PagesParity
      [] f = "threads" -> PagesThreads
      [] f = "streams" -> PagesStreams
      [] f = "masks" -> PagesMasks

\* What reads outside owned storage can return
GarbageRows == {ZeroRow, CorruptRow}

NoOracle == [gnss_id |-> HAS_MSG_GPS_SYSTEM, sat_pop |-> 0, rs_row |-> ZeroRow, oob |-> "differs"]

Oracles ==
    [gnss_id : {HAS_MSG_GPS_SYSTEM, HAS_MSG_GALILEO_SYSTEM, 1}, sat_pop : {0, 2},
     rs_row : GarbageRows, oob : {"differs", "fault"}]

\* The oracles that differ from NoOracle in the named fields only
OraclesOver(fields) ==
    {orc \in Oracles : \A f \in (DOMAIN NoOracle) \ fields : orc[f] = NoOracle[f]}

\* ------------------------------------------------------------------------
\* process_HAS_page, lines 140-186
\* ------------------------------------------------------------------------
\* The screening without the test of line 145 for the reserved page id
ScreenedWithReservedPid(has_page) ==
    /\ has_page.has_status \in {0, 1}
    /\ has_page.message_type = 1

\* Lines 142-147
Screened(has_page) ==
    /\ has_page.has_status \in {0, 1}
    /\ has_page.message_page_id # 0
    /\ has_page.message_type = 1

\* Line 149
MidInRange(has_page) == has_page.message_id < HAS_MSG_NUMBER_MESSAGE_IDS

\* Every page taken for a new one
AnyPidIsNew(pids, has_page) == TRUE

\* Line 151
NewPid(pids, has_page) == has_page.message_page_id \notin PidSet(pids[has_page.message_id])

Accepted(pids, has_page) ==
    Screened(has_page) /\ MidInRange(has_page) /\ NewPid(pids, has_page)

\* Lines 154-160
AnnotatePids(pids, has_page) ==
    [pids EXCEPT ![has_page.message_id] = Append(@, has_page.message_page_id)]

StoreRow(C, has_page) ==
    [C EXCEPT ![has_page.message_id] =
        SetRow(@, has_page.message_page_id - 1,
               RowStored(has_page.has_message_string, CRow(@, has_page.message_page_id - 1),
                         OctetsStored(has_page.has_message_string)))]

\* Lines 154-160 end with an exception, which nothing up to the scheduler
\* catches (the handler catches boost::bad_any_cast only, lines 104-127)
StoreThrows(has_page) ==
    OctetsStored(has_page.has_message_string) < GALILEO_CNAV_OCTETS_IN_SUBPAGE

\* Line 169, the index used on d_received_pids: the message id of the page,
\* whatever the screening said
CompletionIndex(has_page) == has_page.message_id

\* The pages counted against the message size as a lower limit
CompleteAtLeast(pids, has_page) ==
    Len(pids[CompletionIndex(has_page)]) >= has_page.message_size

\* Line 169
Complete(pids, has_page) ==
    Len(pids[CompletionIndex(has_page)]) = has_page.message_size

\* The test of line 179 left out
MaskNeverChecked(data, mask) == TRUE

\* Line 179
MaskKnown(data, mask) == mask.d_nsat_in_mask_id[data.header.mask_id] # 0

NoDecode ==
    [nerasures |-> 0, rs_invoked |-> FALSE, res |-> -1, outcome |-> "none", monitor |-> << >>,
     decoded |-> << >>]

\* Lines 142-165: what the page leaves in the slot table.  The result of
\* process_HAS_page is
\*   pids, C, data, mask   the members afterwards
\*   new_message           d_new_message
\*   accepted              the page was appended to its slot
\*   index, count          the slot line 169 looks at and the size it finds
\*   called, dec           decode_message_type1 was called, and what it did
\*   escaped               an exception left process_HAS_page
Accumulate(has_page) ==
    IF Accepted(d_received_pids, has_page)
    THEN [pids |-> AnnotatePids(d_received_pids, has_page), C |-> StoreRow(d_C_matrix, has_page),
          data |-> d_HAS_data, mask |-> d_mask, new_message |-> FALSE, fault |-> FALSE,
          unspecified |-> {}, accepted |-> TRUE, index |-> CompletionIndex(has_page),
          count |-> -1, called |-> FALSE, dec |-> NoDecode, escaped |-> StoreThrows(has_page)]
    ELSE [pids |-> d_received_pids, C |-> d_C_matrix,
          data |-> d_HAS_data, mask |-> d_mask, new_message |-> FALSE, fault |-> FALSE,
          unspecified |-> {}, accepted |-> FALSE, index |-> CompletionIndex(has_page),
          count |-> -1, called |-> FALSE, dec |-> NoDecode, escaped |-> FALSE]

\* A decode that empties the slots of all message ids
DecodedClearingEverySlot(acc, dec) ==
    [acc EXCEPT
        !.pids = [m \in MessageIds |-> << >>],
        !.C = [m \in MessageIds |-> EmptyMatrix],
        !.data = dec.data,
        !.mask = dec.mask,
        !.fault = (dec.outcome = "fault"),
        !.unspecified = dec.unspecified,
        !.new_message = (dec.res = 0 /\ MaskKnown(dec.data, dec.mask)),
        !.count = Len(acc.pids[acc.index]),
        !.called = TRUE,
        !.dec = [nerasures |-> dec.nerasures, rs_invoked |-> dec.rs_invoked,
                 res |-> dec.res, outcome |-> dec.outcome, monitor |-> dec.monitor,
                 decoded |-> dec.decoded]]

\* Lines 172-185, dec being what decode_message_type1 returned
Decoded(acc, dec) ==
    [acc EXCEPT
        !.pids[acc.index] = dec.pids,
        !.C[acc.index] = dec.Cm,
        !.data = dec.data,
        !.mask = dec.mask,
        !.fault = (dec.outcome = "fault"),
        !.unspecified = dec.unspecified,
        !.new_message = (dec.res = 0 /\ MaskKnown(dec.data, dec.mask)),
        !.count = Len(acc.pids[acc.index]),
        !.called = TRUE,
        !.dec = [nerasures |-> dec.nerasures, rs_invoked |-> dec.rs_invoked,
                 res |-> dec.res, outcome |-> dec.outcome, monitor |-> dec.monitor,
                 decoded |-> dec.decoded]]

\* Lines 168-185.  With a message id of 32 or more d_received_pids[...] is
\* an element the vector does not have: the size read there is whatever
\* follows the vector on the heap, or the read faults.
Completion(acc, has_page, orc) ==
    IF acc.escaped THEN acc
    ELSE IF acc.index \notin DOMAIN acc.pids
    THEN [acc EXCEPT !.fault = (orc.oob = "fault"), !.unspecified = {"oob"}]
    ELSE IF ~Complete(acc.pids, has_page)
    THEN [acc EXCEPT !.count = Len(acc.pids[acc.index])]
    ELSE Decoded(acc, decode_message_type1(acc.pids[acc.index], acc.C[acc.index], d_HAS_data,
                                           d_mask, has_page.message_size,
                                           d_enable_navdata_monitor, orc))

process_HAS_page(has_page, orc) == Completion(Accumulate(has_page), has_page, orc)

OutcomesOver(has_page, fields) ==
    {process_HAS_page(has_page, orc) : orc \in OraclesOver(fields)}

\* What process_HAS_page can do with a page when the values named in fields
\* are free: if a result consults a value that is not among them, that one
\* is freed as well
RECURSIVE Closure(_, _)
Closure(has_page, fields) ==
    UNION {IF (UNION {r.unspecified : r \in results}) \subseteq fields THEN results
           ELSE Closure(has_page, fields \cup UNION {r.unspecified : r \in results}) :
               results \in {OutcomesOver(has_page, fields)}}

\* What process_HAS_page can do with a page: one result, or one for every
\* value it can find where it reads outside what the program owns
ProcessOutcomes(has_page) == Closure(has_page, {})

\* ------------------------------------------------------------------------
\* msg_handler_galileo_e6_has, lines 100-137
\* ------------------------------------------------------------------------
\* The fields of a page that an invocation is told apart by
PageFields(has_page) ==
    [has_status |-> has_page.has_status, message_type |-> has_page.message_type,
     message_id |-> has_page.message_id, message_size |-> has_page.message_size,
     message_page_id |-> has_page.message_page_id,
     well_formed |-> (/\ Len(has_page.has_message_string) = PageBits
                      /\ \A i \in 1..PageBits : has_page.has_message_string[i] \in {0, 1})]

EvInit ==
    [kind |-> "init", page |-> PageFields(Galileo_HAS_page(0, 0, 0, 0, 0, ZeroRow)),
     accepted |-> FALSE, index |-> 0, count |-> 0, called |-> FALSE,
     dec |-> NoDecode, published |-> << >>, escaped |-> FALSE, again |-> FALSE,
     payload |-> << >>]

\* Lines 130-136
Publish(new_message, data) == IF new_message THEN <<data>> ELSE << >>

msg_handler_galileo_e6_has(has_page) ==
    \E r \in ProcessOutcomes(has_page) :
        /\ d_received_pids' = r.pids
        /\ d_C_matrix' = r.C
        /\ d_mask' = r.mask
        /\ d_HAS_data' = r.data
        /\ d_new_message' = (IF r.escaped THEN d_new_message ELSE FALSE)
        /\ fault' = (r.fault \/ r.escaped)
        /\ ev' = [kind |-> "page", page |-> PageFields(has_page), accepted |-> r.accepted,
                  index |-> r.index, count |-> r.count, called |-> r.called,
                  dec |-> r.dec, escaped |-> r.escaped,
                  again |-> (r.dec.decoded # << >> /\ r.dec.decoded = ev.dec.decoded),
                  payload |-> has_page.has_message_string,
                  published |-> IF r.fault \/ r.escaped THEN << >>
                                ELSE Publish(r.new_message, r.data)]
        /\ UNCHANGED <<d_enable_navdata_monitor, feed, d_setlock, threads>>

\* A page arrives while the process is alive
HandlePage ==
    /\ ~fault
    /\ \E has_page \in Pages(feed) : msg_handler_galileo_e6_has(has_page)
    /\ UNCHANGED call

\* Lines 119-122: an object that is no HAS page
HandleUnknownObject ==
    /\ ~fault
    /\ ev' = [EvInit EXCEPT !.kind = "unknown", !.published = Publish(d_new_message, d_HAS_data)]
    /\ d_new_message' = FALSE
    /\ UNCHANGED <<d_received_pids, d_C_matrix, d_mask, d_HAS_data,
                   d_enable_navdata_monitor, fault, feed, d_setlock, threads, call>>

\* Lines 94-97
set_enable_navdata_monitor(enable) ==
    /\ ~fault
    /\ d_enable_navdata_monitor # enable
    /\ d_enable_navdata_monitor' = enable
    /\ UNCHANGED <<d_received_pids, d_C_matrix, d_mask, d_HAS_data, d_new_message,
                   fault, feed, ev, d_setlock, threads, call>>

SetMonitor == \E enable \in BOOLEAN : set_enable_navdata_monitor(enable)

\* ------------------------------------------------------------------------
\* The handler called from several threads of the scheduler.  The handler
\* is cut where another thread could run if nothing held it back: at its
\* entry (line 102), between process_HAS_page and the publication (line
\* 129), and at its return (line 137).
\* ------------------------------------------------------------------------
SchedulerThreads == 2

Threads == 1..SchedulerThreads

NoThread == 0

\* A thread that is not in the handler
Outside ==
    [pc |-> "out", page |-> Galileo_HAS_page(0, 0, 0, 0, 0, ZeroRow), left |-> << >>,
     own |-> << >>]

\* The members the handler works on
Shared == <<d_received_pids, d_C_matrix, d_mask, d_HAS_data, d_new_message>>

\* A mutex that lets every thread in
AlwaysGranted(holder) == TRUE

\* Line 102: gr::thread::scoped_lock lock(d_setlock) returns once no thread
\* holds the mutex
Granted(holder) == holder = NoThread

\* Line 102: the thread enters with the page of its message
Lock(t, has_page) ==
    /\ ~fault
    /\ threads[t].pc = "out"
    /\ Granted(d_setlock)
    /\ d_setlock' = t
    /\ threads' = [threads EXCEPT ![t] = [pc |-> "locked", page |-> has_page, left |-> Shared,
                                          own |-> << >>]]
    /\ UNCHANGED <<d_received_pids, d_C_matrix, d_mask, d_HAS_data, d_new_message,
                   d_enable_navdata_monitor, fault, feed, ev, call>>

\* Lines 104-127: process_HAS_page on the thread's page
Process(t) ==
    /\ ~fault
    /\ threads[t].pc = "locked"
    /\ \E r \in ProcessOutcomes(threads[t].page) :
           /\ d_received_pids' = r.pids
           /\ d_C_matrix' = r.C
           /\ d_mask' = r.mask
           /\ d_HAS_data' = r.data
           /\ d_new_message' = (IF r.escaped THEN d_new_message ELSE r.new_message)
           /\ fault' = (r.fault \/ r.escaped)
           /\ threads' = [threads EXCEPT ![t].pc = "processed",
                                         ![t].left = <<r.pids, r.C, r.mask, r.data, d_new_message'>>,
                                         ![t].own = Publish(r.new_message, r.data)]
    /\ UNCHANGED <<d_enable_navdata_monitor, feed, ev, d_setlock, call>>

\* Lines 129-137: the publication, and the lock released on return
Leave(t) ==
    /\ ~fault
    /\ threads[t].pc = "processed"
    /\ ev' = [EvInit EXCEPT !.kind = "page", !.page = PageFields(threads[t].page),
                            !.payload = threads[t].page.has_message_string,
                            !.published = Publish(d_new_message, d_HAS_data)]
    /\ d_new_message' = FALSE
    /\ d_setlock' = NoThread
    /\ threads' = [threads EXCEPT ![t] = Outside]
    /\ UNCHANGED <<d_received_pids, d_C_matrix, d_mask, d_HAS_data,
                   d_enable_navdata_monitor, fault, feed, call>>

Enter == \E t \in Threads : \E has_page \in Pages(feed) : Lock(t, has_page)

Work == \E t \in Threads : Process(t)

Return == \E t \in Threads : Leave(t)

\* No member function is called on its own
NoCall == [op |-> "none"]

\* Lines 48-91: the state the constructor leaves
Init ==
    /\ d_received_pids = [m \in MessageIds |-> << >>]
    /\ d_C_matrix = [m \in MessageIds |-> EmptyMatrix]
    /\ d_mask = MaskTablesInit
    /\ d_HAS_data = Galileo_HAS_data
    /\ d_new_message = FALSE
    /\ d_enable_navdata_monitor = FALSE
    /\ fault = FALSE
    /\ feed \in Feeds
    /\ ev = EvInit
    /\ d_setlock = NoThread
    /\ threads = [t \in Threads |-> Outside]
    /\ call = NoCall

Next == HandlePage \/ HandleUnknownObject \/ SetMonitor

Spec == Init /\ [][Next]_vars

\* The receiver fed by the scheduler's threads
InitThreads ==
    /\ d_received_pids = [m \in MessageIds |-> << >>]
    /\ d_C_matrix = [m \in MessageIds |-> EmptyMatrix]
    /\ d_mask = MaskTablesInit
    /\ d_HAS_data = Galileo_HAS_data
    /\ d_new_message = FALSE
    /\ d_enable_navdata_monitor = FALSE
    /\ fault = FALSE
    /\ feed = "threads"
    /\ ev = EvInit
    /\ d_setlock = NoThread
    /\ threads = [t \in Threads |-> Outside]
    /\ call = NoCall

NextThreads == Enter \/ Work \/ Return

SpecThreads == InitThreads /\ [][NextThreads]_vars

\* ------------------------------------------------------------------------
\* Member functions called on their own, the block as the constructor left it
\* ------------------------------------------------------------------------
AtRest ==
    /\ d_received_pids = [m \in MessageIds |-> << >>]
    /\ d_C_matrix = [m \in MessageIds |-> EmptyMatrix]
    /\ d_mask = MaskTablesInit
    /\ d_HAS_data = Galileo_HAS_data
    /\ d_new_message = FALSE
    /\ d_enable_navdata_monitor = FALSE
    /\ fault = FALSE
    /\ feed = "none"
    /\ ev = EvInit
    /\ d_setlock = NoThread
    /\ threads = [t \in Threads |-> Outside]

\* Lines 193-210 for the page ids of one slot as they come in.  The message
\* size is the one the page format has, 1 .. 32; the page ids are information
\* pages, page ids between a message size and 32, and parity pages.
MaxReceived == 3

MessageSizes == 1..GALILEO_CNAV_INFORMATION_VECTOR_LENGTH

PidsReceivable == {1, 2, 4, 32, 33, 255}

ErasureCall(received, message_size) ==
    [op |-> "erasure_positions", received |-> received, message_size |-> message_size,
     erasure_positions |-> ErasurePositions(received, message_size)]

InitErasures ==
    /\ AtRest
    /\ \E message_size \in MessageSizes : call = ErasureCall(<< >>, message_size)

\* Line 154 and lines 193-210: another page id in the slot
ReceivePid ==
    /\ Len(call.received) < MaxReceived
    /\ \E pid \in PidsReceivable \ PidSet(call.received) :
           call' = ErasureCall(Append(call.received, pid), call.message_size)
    /\ UNCHANGED receiver

SpecErasures == InitErasures /\ [][ReceivePid]_vars

\* Lines 838-864 for strings of 1 .. 16 bits, 16 being the width of the
\* int16_t the function returns: the strings made of at most MaxRuns runs of
\* equal bits
INT16_BITS == 16

MaxRuns == 4

Runs(bits) == 1 + Cardinality({j \in 1..(Len(bits) - 1) : bits[j] # bits[j + 1]})

Int16Call(bits) ==
    [op |-> "read_has_message_body_int16", bits |-> bits,
     value |-> read_has_message_body_int16(bits)]

InitInt16 ==
    /\ AtRest
    /\ \E b \in {0, 1} : call = Int16Call(<<b>>)

\* The string one bit longer
AppendBit ==
    /\ Len(call.bits) < INT16_BITS
    /\ \E b \in {0, 1} :
           /\ b = call.bits[Len(call.bits)] \/ Runs(call.bits) < MaxRuns
           /\ call' = Int16Call(Append(call.bits, b))
    /\ UNCHANGED receiver

SpecInt16 == InitInt16 /\ [][AppendBit]_vars

\* Lines 266-276 for a d_M_matrix whose first rows are what the codec
\* restored and whose other rows are zero
MaxRows == 3

RowsRestored ==
    {ZeroRow, CorruptRow, Symbol(MsgMask, 1), Symbol(MsgClean, 1), Symbol(MsgClean, 2)}

MatrixOf(rows) ==
    [row \in 1..GALILEO_CNAV_INFORMATION_VECTOR_LENGTH |->
        IF row <= Len(rows) THEN rows[row] ELSE ZeroRow]

DecodedCall(rows) ==
    [op |-> "decoded_message_type_1", M |-> MatrixOf(rows), message_size |-> Len(rows),
     decoded_message_type_1 |-> DecodedString(MatrixOf(rows), Len(rows))]

InitDecoded ==
    /\ AtRest
    /\ \E row \in RowsRestored : call = DecodedCall(<<row>>)

\* A message one page longer
RestoreRow ==
    /\ call.message_size < MaxRows
    /\ \E row \in RowsRestored :
           call' = DecodedCall(Append(SubSeq(call.M, 1, call.message_size), row))
    /\ UNCHANGED receiver

SpecDecoded == InitDecoded /\ [][RestoreRow]_vars

\* ------------------------------------------------------------------------
\* Two messages on air at once: every page of PagesStreams is delivered
\* once, in any order; call.delivered lists <<message id, page id>> of the
\* pages delivered so far
\* ------------------------------------------------------------------------
StreamsCall(delivered) == [op |-> "streams", delivered |-> delivered]

InitStreams ==
    /\ d_received_pids = [m \in MessageIds |-> << >>]
    /\ d_C_matrix = [m \in MessageIds |-> EmptyMatrix]
    /\ d_mask = MaskTablesInit
    /\ d_HAS_data = Galileo_HAS_data
    /\ d_new_message = FALSE
    /\ d_enable_navdata_monitor = FALSE
    /\ fault = FALSE
    /\ feed = "streams"
    /\ ev = EvInit
    /\ d_setlock = NoThread
    /\ threads = [t \in Threads |-> Outside]
    /\ call = StreamsCall(<< >>)

PageId(has_page) == <<has_page.message_id, has_page.message_page_id>>

PageOfId(id) == CHOOSE has_page \in PagesStreams : PageId(has_page) = id

Deliver ==
    /\ ~fault
    /\ \E has_page \in Pages(feed) :
           /\ \A j \in 1..Len(call.delivered) : call.delivered[j] # PageId(has_page)
           /\ msg_handler_galileo_e6_has(has_page)
           /\ call' = StreamsCall(Append(call.delivered, PageId(has_page)))

SpecStreams == InitStreams /\ [][Deliver]_vars

\* ------------------------------------------------------------------------
\* One-page messages under several mask ids, in any order
\* ------------------------------------------------------------------------
InitMasks ==
    /\ d_received_pids = [m \in MessageIds |-> << >>]
    /\ d_C_matrix = [m \in MessageIds |-> EmptyMatrix]
    /\ d_mask = MaskTablesInit
    /\ d_HAS_data = Galileo_HAS_data
    /\ d_new_message = FALSE
    /\ d_enable_navdata_monitor = FALSE
    /\ fault = FALSE
    /\ feed = "masks"
    /\ ev = EvInit
    /\ d_setlock = NoThread
    /\ threads = [t \in Threads |-> Outside]
    /\ call = NoCall

SpecMasks == InitMasks /\ [][HandlePage]_vars

\* ------------------------------------------------------------------------
\* One codeword on air: the pages of MsgClean are broadcast in page id
\* order, the information pages and then parity pages (page ids 33 and up);
\* the receiver gets each page or misses it, and the last information page
\* may arrive damaged beyond the codec.  call.sent counts the pages
\* broadcast, call.lost those the receiver missed.
\* ------------------------------------------------------------------------
ParityBroadcast == 31

MaxLost == 1

BroadcastLength == MsgClean.size + ParityBroadcast

BroadcastPid(k) == IF k <= MsgClean.size THEN k ELSE FIRST_PARITY_PID + (k - MsgClean.size) - 1

BroadcastPage(k, damaged) ==
    Galileo_HAS_page(0, 1, MsgClean.id, MsgClean.size, BroadcastPid(k),
                     IF damaged THEN CorruptRow ELSE Symbol(MsgClean, BroadcastPid(k)))

BroadcastCall(sent, lost) == [op |-> "broadcast", sent |-> sent, lost |-> lost]

InitBroadcast ==
    /\ d_received_pids = [m \in MessageIds |-> << >>]
    /\ d_C_matrix = [m \in MessageIds |-> EmptyMatrix]
    /\ d_mask = MaskTablesInit
    /\ d_HAS_data = Galileo_HAS_data
    /\ d_new_message = FALSE
    /\ d_enable_navdata_monitor = FALSE
    /\ fault = FALSE
    /\ feed = "broadcast"
    /\ ev = EvInit
    /\ d_setlock = NoThread
    /\ threads = [t \in Threads |-> Outside]
    /\ call = BroadcastCall(0, 0)

Receive ==
    /\ ~fault
    /\ call.sent < BroadcastLength
    /\ \E damaged \in (IF call.sent + 1 = MsgClean.size THEN BOOLEAN ELSE {FALSE}) :
           msg_handler_galileo_e6_has(BroadcastPage(call.sent + 1, damaged))
    /\ call' = BroadcastCall(call.sent + 1, call.lost)

Miss ==
    /\ call.sent < BroadcastLength
    /\ call.lost < MaxLost
    /\ call' = BroadcastCall(call.sent + 1, call.lost + 1)
    /\ UNCHANGED receiver

NextBroadcast == Receive \/ Miss

SpecBroadcast == InitBroadcast /\ [][NextBroadcast]_vars

\* Lines 140-186 on a receiver given as a record st (pids, C, data, mask)
\* instead of the members: what the page leaves, and in st.results what
\* each call of decode_message_type1 gave
ProcessOn(st, has_page) ==
    LET mid == CompletionIndex(has_page)
        taken == Accepted(st.pids, has_page)
        pids == IF taken THEN AnnotatePids(st.pids, has_page) ELSE st.pids
        C == IF taken THEN StoreRow(st.C, has_page) ELSE st.C
        dec == decode_message_type1(pids[mid], C[mid], st.data, st.mask, has_page.message_size,
                                    d_enable_navdata_monitor, NoOracle)
    IN  IF ~Complete(pids, has_page) THEN [st EXCEPT !.pids = pids, !.C = C]
        ELSE [pids |-> [pids EXCEPT ![mid] = dec.pids],
              C |-> [C EXCEPT ![mid] = dec.Cm],
              data |-> dec.data,
              mask |-> dec.mask,
              results |-> Append(st.results,
                                 [message_id |-> mid, nerasures |-> dec.nerasures,
                                  outcome |-> dec.outcome, decoded |-> dec.decoded,
                                  published |-> Publish(dec.res = 0 /\ MaskKnown(dec.data, dec.mask),
                                                        dec.data)])]

\* The pages of ids handled one after the other by a receiver as constructed
RECURSIVE ProcessAll(_, _)
ProcessAll(st, ids) ==
    IF Len(ids) = 0 THEN st ELSE ProcessAll(ProcessOn(st, PageOfId(Head(ids))), Tail(ids))

Constructed ==
    [pids |-> [m \in MessageIds |-> << >>], C |-> [m \in MessageIds |-> EmptyMatrix],
     data |-> Galileo_HAS_data, mask |-> MaskTablesInit, results |-> << >>]

\* ------------------------------------------------------------------------
\* Properties
\* ------------------------------------------------------------------------
\* The step is an invocation of the handler with a page (ev' describes it)
PageStep == ev'.kind = "page" /\ d_enable_navdata_monitor' = d_enable_navdata_monitor

\* The slot line 169 looked at is empty
SlotReset == d_received_pids[ev.index] = << >> /\ d_C_matrix[ev.index] = EmptyMatrix

\* C1: the pages 1..k of a message of size k, all carrying message_size = k,
\* arrive in any order and any number of times; the mask of the message has
\* Nsat > 0 and the codec succeeds.  An invocation that finds fewer than k
\* distinct pages in the slot publishes nothing, and the invocation that
\* accepts the k-th distinct page publishes exactly one record, the message.
C1_PublishOnKthPage ==
    (feed = "clean" /\ ev.kind = "page") =>
        /\ ev.count \in 1..MsgClean.size
        /\ ev.count < MsgClean.size => ev.published = << >>
        /\ (ev.accepted /\ ev.count = MsgClean.size) =>
              /\ Len(ev.published) = 1
              /\ ev.published[1] = d_HAS_data
              /\ d_HAS_data.header.mask_id = 5
              /\ d_mask.d_nsat_in_mask_id[5] > 0

C1_Witness ==
    /\ feed = "clean" /\ ev.kind = "page"
    /\ ev.accepted /\ ev.count = MsgClean.size /\ ev.page.message_page_id = 1
    /\ Len(ev.published) = 1

\* C2: d_new_message is false between invocations, and an invocation
\* publishes one record on E6_HAS_to_PVT if it called decode_message_type1,
\* the call returned 0 and the cached Nsat of the decoded header's mask_id is
\* not 0; any other invocation publishes nothing.
C2_PublishOncePerSuccess ==
    /\ d_new_message = FALSE
    /\ ev.kind # "init" =>
          Len(ev.published) =
              (IF /\ ev.called /\ ev.dec.res = 0
                  /\ d_mask.d_nsat_in_mask_id[d_HAS_data.header.mask_id] # 0
               THEN 1 ELSE 0)

C2_Witness ==
    /\ feed = "parse" /\ ev.kind = "page" /\ ev.called /\ ev.dec.res = 0
    /\ d_mask.d_nsat_in_mask_id[d_HAS_data.header.mask_id] # 0
    /\ Len(ev.published) = 1

\* C3: a page that fails the screening (has_status outside {0, 1}, page id 0
\* or message type other than 1) leaves the slot table and the mask cache
\* unchanged, starts no decode and publishes nothing.
C3_ScreenedOutPageIsInert ==
    [][(PageStep /\ ~Screened(ev'.page)) =>
          /\ d_received_pids' = d_received_pids
          /\ d_C_matrix' = d_C_matrix
          /\ d_mask' = d_mask
          /\ ~ev'.called
          /\ ev'.published = << >>]_vars

\* C4: a page whose page id is already in the pid list of its message id
\* leaves the pid list and the stored rows unchanged, starts no decode and
\* publishes nothing.
C4_DuplicatePageIsInert ==
    [][(/\ PageStep
        /\ ev'.page.message_id \in MessageIds
        /\ ev'.page.message_page_id \in PidSet(d_received_pids[ev'.page.message_id])) =>
          /\ d_received_pids' = d_received_pids
          /\ d_C_matrix' = d_C_matrix
          /\ ~ev'.called
          /\ ev'.published = << >>]_vars

\* C5: the handler indexes the slot table at 0..31 only, whatever message id
\* the page carries.
C5_SlotIndexInRange ==
    ev.kind = "page" => ev.index \in 0..(HAS_MSG_NUMBER_MESSAGE_IDS - 1)

\* C6: after a decode that returned 0 the slot of the message id has an empty
\* pid list and an all-zero C table.
C6_SlotEmptyAfterSuccess ==
    (ev.kind = "page" /\ ev.called /\ ev.dec.res = 0) => SlotReset

C6_Witness ==
    /\ ev.kind = "page" /\ ev.called /\ ev.dec.res = 0 /\ ev.count > 1
    /\ SlotReset

\* C7: a decode that finds more than 223 erasure positions does not invoke
\* the codec, resets the slot, returns failure, and nothing is published.
C7_TooManyErasures ==
    (ev.kind = "page" /\ ev.called /\ ev.dec.nerasures > MAX_ERASURES) =>
        /\ ~ev.dec.rs_invoked
        /\ SlotReset
        /\ ev.dec.res = -1
        /\ ev.published = << >>

C7_Witness ==
    /\ ev.kind = "page" /\ ev.called /\ ev.dec.nerasures > MAX_ERASURES
    /\ ev.count = MsgClean.size
    /\ ~ev.dec.rs_invoked /\ SlotReset

\* C8: when the codec reports failure the slot of the message id is reset and
\* nothing is published.
C8_RSFailureResetsSlot ==
    (ev.kind = "page" /\ ev.called /\ ev.dec.outcome = "RSFailure") =>
        /\ SlotReset
        /\ ev.published = << >>

\* C9: when a field of the body needs more bits than are left, the decode
\* fails, nothing is published and the slot of the message id is left reset.
C9_UnderrunIsMalformed ==
    (ev.kind = "page" /\ ev.called /\ ev.dec.outcome = "Malformed") =>
        /\ ev.dec.res = -1
        /\ ev.published = << >>
        /\ SlotReset

C9_Witness ==
    /\ ev.kind = "page" /\ ev.called /\ ev.dec.outcome = "Malformed"
    /\ d_HAS_data.Nsys = 7
    /\ ev.published = << >> /\ SlotReset

\* C10: when the parser fails with Malformed, the cached Nsat of the mask id
\* of the message is 0 afterwards.
C10_MalformedEvictsMask ==
    (ev.kind = "page" /\ ev.called /\ ev.dec.outcome = "Malformed") =>
        d_mask.d_nsat_in_mask_id[d_HAS_data.header.mask_id] = 0

\* C11: no exception leaves the handler, and a page whose payload is not a
\* string of 424 binary digits is dropped with the slot table unchanged.
C11_CorruptPageDropped ==
    [][(PageStep /\ ~ev'.page.well_formed) =>
          /\ ~ev'.escaped
          /\ d_received_pids' = d_received_pids
          /\ d_C_matrix' = d_C_matrix]_vars

\* C12: after an accepted page a decode is attempted if and only if the
\* number of page ids line 169 finds in the slot, the new one included,
\* equals the message_size of that page, whatever sizes the earlier pages
\* carried.
C12_CompletionUsesTriggeringSize ==
    (ev.kind = "page" /\ ev.accepted /\ ~ev.escaped) =>
        /\ ev.count >= 1
        /\ ev.called <=> ev.count = ev.page.message_size

\* Page 2 says size 2 and completes a slot whose page 1 said size 3
C12_Witness ==
    /\ feed = "sizes" /\ ev.kind = "page" /\ ev.accepted /\ ev.called
    /\ ev.page.message_page_id = 2 /\ ev.page.message_size = 2 /\ ev.count = 2

\* The page ids decode_message_type1 finds in the slot in this step
PidsSeen ==
    PidSet(d_received_pids[ev'.index])
        \cup (IF ev'.accepted THEN {ev'.page.message_page_id} ELSE {})

\* The step decodes a slot that holds message_size page ids, all of them
\* information pages 1..message_size or parity pages 33..255, with at least
\* one parity page standing in for a missing information page
ParityStandsIn ==
    /\ PageStep /\ ev'.called
    /\ Cardinality(PidsSeen) = ev'.page.message_size
    /\ PidsSeen \subseteq (1..ev'.page.message_size) \cup (FIRST_PARITY_PID..(PID_LIMIT - 1))
    /\ PidsSeen \cap (FIRST_PARITY_PID..(PID_LIMIT - 1)) # {}

C14_OneRecordPerCodeword ==
    [][(/\ feed = "parity"
        /\ ev.kind = "page" /\ Len(ev.published) = 1
        /\ PageStep
        /\ ev'.page.message_page_id # ev.page.message_page_id) =>
          ev'.published = << >>]_vars

\* The decode of the step's message returned 0 and the message carried a mask
\* and a time of hour within range
MaskParsed ==
    /\ ev.kind = "page" /\ ev.called /\ ev.dec.outcome = "ok"
    /\ d_HAS_data.header.mask_flag
    /\ d_HAS_data.header.toh <= HAS_MSG_NUMBER_MAX_TOH

\* The number of satellites in a sequence of satellite masks
RECURSIVE SatellitesIn(_)
SatellitesIn(masks) ==
    IF masks = << >> THEN 0 ELSE CountOnes(Head(masks)) + SatellitesIn(Tail(masks))

\* The cache entry of the decoded header's mask id holds system i (1-based) of
\* the decoded message
CachedSystemIsParsed(i) ==
    LET id == d_HAS_data.header.mask_id
    IN  /\ d_mask.d_gnss_id_in_mask[id][i - 1] = d_HAS_data.gnss_id_mask[i]
        /\ d_mask.d_satellite_mask[id][i - 1] = d_HAS_data.satellite_mask[i]
        /\ d_mask.d_signal_mask[id][i - 1] = d_HAS_data.signal_mask[i]
        /\ d_mask.d_cell_mask_availability_flag[id][i - 1] = d_HAS_data.cell_mask_availability_flag[i]
        /\ d_mask.d_cell_mask[id][i] = d_HAS_data.cell_mask[i]
        /\ d_mask.d_nav_message_mask[id][i - 1] = d_HAS_data.nav_message[i]

\* C15: after a message with mask_flag = 1 and toh <= 3599 is parsed without
\* error, the cache entry of its mask id holds the mask of the message: its
\* Nsys, its systems, and Nsat = the number of satellites in its satellite
\* masks, for every Nsys the message can carry.
C15_CacheHoldsParsedMask ==
    MaskParsed =>
        /\ d_mask.d_nsys_in_mask[d_HAS_data.header.mask_id] = d_HAS_data.Nsys
        /\ d_mask.d_nsat_in_mask_id[d_HAS_data.header.mask_id]
              = SatellitesIn(d_HAS_data.satellite_mask)
        /\ \A i \in 1..d_HAS_data.Nsys : CachedSystemIsParsed(i)

\* The header of the message the last call of decode_message_type1 decoded.
DecodedHeader == read_MT1_header(Substr0(ev.dec.decoded, GALILEO_CNAV_MT1_HEADER_BITS))

\* The invocation decoded a message carrying its mask, bit for bit the
\* message the invocation before it decoded (ev.again).
MaskMessageAgain == ev.kind = "page" /\ ev.again /\ DecodedHeader.mask_flag

\* C16: when a message with mask_flag = 1 is decoded and the same message,
\* bit for bit, is decoded next, the mask tables after the second decoding
\* are the mask tables after the first.
C16_MaskCacheIdempotent ==
    [][(PageStep /\ MaskMessageAgain') => d_mask' = d_mask]_vars

C16_Witness ==
    /\ MaskMessageAgain
    /\ ev.dec.outcome = "ok"
    /\ d_mask.d_nsat_in_mask_id[DecodedHeader.mask_id] > 0

\* The invocation before this one decoded, without error, a message carrying
\* the mask of some mask id; this one decodes a message with mask_flag = 0
\* and the same mask id, and finds Nsat > 0 cached for it.
MaskThenRecall ==
    /\ PageStep
    /\ ev.kind = "page" /\ ev.dec.outcome = "ok" /\ DecodedHeader.mask_flag
    /\ ev'.dec.decoded # << >> /\ ~DecodedHeader'.mask_flag
    /\ DecodedHeader'.mask_id = DecodedHeader.mask_id
    /\ d_mask.d_nsat_in_mask_id[DecodedHeader.mask_id] > 0

\* What read_MT1_body makes of the message this invocation decodes
Recalled == ParseMessage(ev'.dec.decoded, d_mask, NoOracle)

\* C17: a message with mask_flag = 0 that finds a mask cached for its mask id
\* is parsed with the Nsat, the Nsys and the per-system mask fields of the
\* message with mask_flag = 1 that last wrote that cache entry (here: the
\* message decoded just before it, no other message intervening).
C17_RecallYieldsPopulatingMask ==
    [][MaskThenRecall =>
          /\ Recalled.Nsat = SatellitesIn(d_HAS_data.satellite_mask)
          /\ Recalled.data.Nsys = d_HAS_data.Nsys
          /\ Recalled.data.gnss_id_mask = d_HAS_data.gnss_id_mask
          /\ Recalled.data.satellite_mask = d_HAS_data.satellite_mask
          /\ Recalled.data.signal_mask = d_HAS_data.signal_mask
          /\ Recalled.data.cell_mask_availability_flag = d_HAS_data.cell_mask_availability_flag
          /\ Len(Recalled.data.cell_mask) = Len(d_HAS_data.cell_mask)
          /\ \A i \in 1..Len(d_HAS_data.cell_mask) :
                 /\ Recalled.data.cell_mask[i].rows = d_HAS_data.cell_mask[i].rows
                 /\ Recalled.data.cell_mask[i].cols = d_HAS_data.cell_mask[i].cols]_vars

\* This invocation decodes a message with mask_flag = 0 for whose mask id
\* no satellite is cached.
CacheMiss ==
    /\ PageStep
    /\ ev'.dec.decoded # << >> /\ ~DecodedHeader'.mask_flag
    /\ d_mask.d_nsat_in_mask_id[DecodedHeader'.mask_id] = 0

\* C18: a message with mask_flag = 0 whose mask id has no cached mask is
\* parsed no further than its header, whatever flags the header carries:
\* d_HAS_data holds the header and nothing else, no record is published and
\* the mask tables are what they were.
C18_CacheMissSkipsBlocks ==
    [][CacheMiss =>
          /\ ev'.dec.outcome = "ok"
          /\ d_HAS_data' = [Galileo_HAS_data EXCEPT !.header = DecodedHeader']
          /\ ev'.published = << >>
          /\ d_mask' = d_mask]_vars

C18_Witness ==
    /\ ev.kind = "page" /\ ev.dec.decoded # << >> /\ ev.dec.outcome = "ok"
    /\ ~DecodedHeader.mask_flag
    /\ DecodedHeader.orbit_correction_flag
    /\ d_mask.d_nsat_in_mask_id[DecodedHeader.mask_id] = 0
    /\ d_HAS_data = [Galileo_HAS_data EXCEPT !.header = DecodedHeader]
    /\ ev.published = << >>

\* d_HAS_data without its header and its mask
CorrectionsOf(data) ==
    [data EXCEPT !.header = Galileo_HAS_data.header,
                 !.Nsys = Galileo_HAS_data.Nsys,
                 !.gnss_id_mask = Galileo_HAS_data.gnss_id_mask,
                 !.satellite_mask = Galileo_HAS_data.satellite_mask,
                 !.signal_mask = Galileo_HAS_data.signal_mask,
                 !.cell_mask_availability_flag = Galileo_HAS_data.cell_mask_availability_flag,
                 !.cell_mask = Galileo_HAS_data.cell_mask,
                 !.nav_message = Galileo_HAS_data.nav_message]

\* The last invocation decoded and parsed, without error, a message whose
\* time of hour exceeds HAS_MSG_NUMBER_MAX_TOH.
TohOutOfRange ==
    /\ ev.kind = "page" /\ ev.dec.outcome = "ok"
    /\ DecodedHeader.toh > HAS_MSG_NUMBER_MAX_TOH

\* C19: a decoded message whose toh exceeds 3599, with mask_flag 0 or 1, has
\* none of its correction blocks parsed, leaves Nsat = 0 cached for its mask
\* id (also when the message itself carried the mask) and is not published.
C19_TohGateEvicts ==
    TohOutOfRange =>
        /\ d_HAS_data.header = DecodedHeader
        /\ CorrectionsOf(d_HAS_data) = Galileo_HAS_data
        /\ d_mask.d_nsat_in_mask_id[DecodedHeader.mask_id] = 0
        /\ ev.published = << >>

\* The message with mask_flag = 0 whose mask was cached: it is recalled
\* (Nsys = 1) and then evicted.
C19_Witness ==
    /\ TohOutOfRange
    /\ ~DecodedHeader.mask_flag /\ DecodedHeader.orbit_correction_flag
    /\ d_HAS_data.Nsys = 1
    /\ d_mask.d_nsat_in_mask_id[DecodedHeader.mask_id] = 0

\* C20: with the monitor enabled, a call of decode_message_type1 publishes a
\* packet on Nav_msg_from_TLM exactly when it returns 0 (none when it ends in
\* TooManyErasures, RSFailure or Malformed), and the packet is the decoded
\* string of message_size * 424 bits; with the monitor disabled it publishes
\* none.
C20_MonitorPacketIffSuccess ==
    [][(PageStep /\ ev'.called /\ ev'.dec.outcome # "fault") =>
          IF d_enable_navdata_monitor
          THEN /\ ev'.dec.monitor # << >> <=> ev'.dec.outcome = "ok"
               /\ ev'.dec.monitor # << >> =>
                      /\ ev'.dec.monitor = <<ev'.dec.decoded>>
                      /\ Len(ev'.dec.decoded) = ev'.page.message_size * PageBits
          ELSE ev'.dec.monitor = << >>]_vars

\* The threads inside the handler
Inside == {t \in Threads : threads[t].pc # "out"}

\* Thread t takes a step of the handler
StepOf(t) == threads[t].pc # "out" /\ threads'[t] # threads[t]

\* C21: invocations of the handler from several threads exclude each other
\* from the screening of the page to the publication: at most one thread is
\* inside; at each of its steps a thread finds the slot table, the mask
\* tables, d_HAS_data and d_new_message as its own last step left them; and
\* what it publishes is what it decoded from its own page.
C21_HandlerInvocationsExclude ==
    /\ [](Cardinality(Inside) <= 1)
    /\ [][\A t \in Threads :
             StepOf(t) =>
                 /\ Shared = threads[t].left
                 /\ threads[t].pc = "processed" => ev'.published = threads[t].own]_vars

\* A thread is about to publish the record it decoded while the other waits
\* outside.
C21_Witness ==
    /\ feed = "threads"
    /\ \E t \in Threads :
           /\ threads[t].pc = "processed"
           /\ Len(threads[t].own) = 1
           /\ d_setlock = t
    /\ d_mask.d_nsat_in_mask_id[d_HAS_data.header.mask_id] > 0

\* The positions in a list of erasure positions
Positions(erasure_positions) == {erasure_positions[j] : j \in 1..Len(erasure_positions)}

\* C22: the erasure positions are, as a set, the 0-based positions of the
\* page ids in 1 .. message_size and 33 .. 255 that were not received; no
\* position of a page id in message_size + 1 .. 32 is among them and none is
\* listed twice.
C22_ErasurePositions ==
    call.op = "erasure_positions" =>
        /\ Positions(call.erasure_positions) =
               {p - 1 : p \in ((1..call.message_size) \cup (FIRST_PARITY_PID..(PID_LIMIT - 1)))
                               \ PidSet(call.received)}
        /\ \A p \in (call.message_size + 1)..GALILEO_CNAV_INFORMATION_VECTOR_LENGTH :
               (p - 1) \notin Positions(call.erasure_positions)
        /\ Cardinality(Positions(call.erasure_positions)) = Len(call.erasure_positions)

\* Two pages of a two-page message, one of them with a page id between the
\* message size and 32, and a parity page
C22_Witness ==
    /\ call.op = "erasure_positions"
    /\ call.message_size = 2
    /\ PidSet(call.received) = {1, 4, 33}
    /\ Len(call.erasure_positions) = MAX_ERASURES
    /\ 3 \notin Positions(call.erasure_positions)

\* The page ids in the slot that lie above the message size and below the
\* parity pages, when this invocation calls decode_message_type1
PidsOutOfPlace ==
    PidsSeen \cap ((ev'.page.message_size + 1)..GALILEO_CNAV_INFORMATION_VECTOR_LENGTH)

\* This invocation calls decode_message_type1 for a message size of 1 .. 32
DecodeTriggered ==
    /\ PageStep /\ ev'.called
    /\ ev'.page.message_size \in MessageSizes

\* C23: when the completion test triggers a decode, the number of erasure
\* positions is 223 plus the number of received page ids in
\* message_size + 1 .. 32: the decode ends in TooManyErasures exactly when
\* there is such a page id, and otherwise the codec is invoked with exactly
\* 223 erasures.
C23_ErasureCount ==
    [][DecodeTriggered =>
          /\ ev'.dec.nerasures = MAX_ERASURES + Cardinality(PidsOutOfPlace)
          /\ ev'.dec.outcome = "TooManyErasures" <=> PidsOutOfPlace # {}
          /\ PidsOutOfPlace = {} => ev'.dec.rs_invoked /\ ev'.dec.nerasures = MAX_ERASURES]_vars

\* A decode of the three-page message with page id 4 among its three pages
C23_Witness ==
    /\ feed = "erasure" /\ ev.kind = "page" /\ ev.called
    /\ ev.page.message_size = MsgClean.size
    /\ ev.dec.nerasures = MAX_ERASURES + 1
    /\ ev.dec.outcome = "TooManyErasures"

\* The last invocation parsed, without error, a message with the clock
\* subset flag set, and d_HAS_data has Nsysprime = 0
NoSubsystems ==
    /\ ev.kind = "page" /\ ev.dec.outcome = "ok"
    /\ DecodedHeader.clock_subset_flag
    /\ d_HAS_data.Nsysprime = 0

\* C24: a clock subset block with Nsysprime = 0 leaves Nsat = 0 cached for
\* the mask id of the header, has the code bias and the phase bias block
\* skipped, and no record is published for the message.
C24_NsysprimeZeroAborts ==
    NoSubsystems =>
        /\ d_mask.d_nsat_in_mask_id[DecodedHeader.mask_id] = 0
        /\ d_HAS_data.validity_interval_index_code_bias_corrections = 0
        /\ d_HAS_data.code_bias = << >>
        /\ d_HAS_data.validity_interval_index_phase_bias_corrections = 0
        /\ d_HAS_data.phase_bias = << >>
        /\ d_HAS_data.phase_discontinuity_indicator = << >>
        /\ ev.published = << >>

\* The block was entered under a recalled mask (its validity index, 7, was
\* read) and both bias flags are set
C24_Witness ==
    /\ NoSubsystems
    /\ d_HAS_data.Nsys = 1
    /\ d_HAS_data.validity_interval_index_clock_subset_corrections = 7
    /\ DecodedHeader.code_bias_flag /\ DecodedHeader.phase_bias_flag
    /\ d_mask.d_nsat_in_mask_id[DecodedHeader.mask_id] = 0

\* The system slot that holds satellite s (0-based, in mask order): the
\* first slot i with s below the number of satellites in slots 0 .. i
SystemSlotOf(satellite_mask, s) ==
    CHOOSE i \in 0..(Len(satellite_mask) - 1) :
        /\ s < SatellitesIn(SubSeq(satellite_mask, 1, i + 1))
        /\ s >= SatellitesIn(SubSeq(satellite_mask, 1, i))

\* The last invocation parsed the orbit block of a message for the
\* satellites of the mask in d_HAS_data
OrbitParsed ==
    /\ ev.kind = "page" /\ ev.dec.decoded # << >>
    /\ DecodedHeader.orbit_correction_flag
    /\ d_HAS_data.gnss_iod # << >>
    /\ Len(d_HAS_data.gnss_iod) = SatellitesIn(d_HAS_data.satellite_mask)

\* C25: in the orbit block the gnss_id that decides the width of the IOD of
\* satellite s is the one of the system slot that holds s, whatever lies
\* outside the vector of gnss ids: it is never looked up at an index of Nsys
\* or more.
C25_IodWidthBySystemSlot ==
    OrbitParsed =>
        \A s \in 0..(Len(d_HAS_data.gnss_iod) - 1) : \A orc \in Oracles :
            GnssIdOfSatellite([data |-> d_HAS_data], s, orc) =
                d_HAS_data.gnss_id_mask[SystemSlotOf(d_HAS_data.satellite_mask, s) + 1]

\* The orbit block was parsed and the gnss id looked up for one of its
\* satellites, inside the vector of gnss ids, is neither GPS nor Galileo
OrbitOfOtherSystem ==
    /\ OrbitParsed
    /\ \E s \in 0..(Len(d_HAS_data.gnss_iod) - 1) :
           /\ s < Len(d_HAS_data.gnss_id_mask)
           /\ GnssIdOfSatellite([data |-> d_HAS_data], s, NoOracle)
                  \notin {HAS_MSG_GPS_SYSTEM, HAS_MSG_GALILEO_SYSTEM}

\* C26: a satellite of the orbit block whose gnss id is neither GPS nor
\* Galileo makes the message Malformed: the decode fails, none of the
\* satellite's deltas is read and no record is published.
C26_OtherSystemIsMalformed ==
    OrbitOfOtherSystem =>
        /\ ev.dec.outcome = "Malformed"
        /\ ev.dec.res = -1
        /\ ev.published = << >>

\* The unsigned value of a string of bits, MSB first
RECURSIVE UnsignedValue(_)
UnsignedValue(bits) ==
    IF bits = << >> THEN 0
    ELSE 2 * UnsignedValue(SubSeq(bits, 1, Len(bits) - 1)) + bits[Len(bits)]

\* C27: read_has_message_body_int16 of a string of n bits, 1 <= n <= 16,
\* returns its two's-complement value of width n: u for u < 2^(n-1) and
\* u - 2^n otherwise, u being the unsigned value of the bits; the result
\* lies in -2^(n-1) .. 2^(n-1) - 1.
C27_Int16IsTwosComplement ==
    call.op = "read_has_message_body_int16" =>
        LET n == Len(call.bits)
            u == UnsignedValue(call.bits)
        IN  /\ call.value = (IF u < Pow2(n - 1) THEN u ELSE u - Pow2(n))
            /\ call.value >= -Pow2(n - 1)
            /\ call.value <= Pow2(n - 1) - 1

\* The string of 13 ones yields -1
C27_Witness ==
    /\ call.op = "read_has_message_body_int16"
    /\ call.bits = [j \in 1..13 |-> 1]
    /\ call.value = -1

\* The clock subset deltas d_HAS_data holds for subsystem i (0-based):
\* delta_clock_c0_clock_subset is a vector of one int16_t for each subsystem
DeltasHeld(i) == <<d_HAS_data.delta_clock_c0_clock_subset[i + 1]>>

\* The last invocation parsed, without error, a clock subset block that has
\* subsystems
SubsetParsed ==
    /\ ev.kind = "page" /\ ev.dec.outcome = "ok"
    /\ DecodedHeader.clock_subset_flag
    /\ d_HAS_data.Nsysprime > 0

\* C28: after the clock subset block is parsed the record holds, for each
\* subsystem i < Nsysprime, one delta for each set bit of the satellite
\* submask of i.
C28_SubsetDeltasRetained ==
    SubsetParsed =>
        \A i \in 0..(d_HAS_data.Nsysprime - 1) :
            Len(DeltasHeld(i)) = Nsatprime([data |-> d_HAS_data], i)

\* Bit b (0 the most significant) of an octet
BitOfOctet(octet, b) == (octet \div Pow2(7 - b)) % 2

\* C29: the string formed from the matrix the codec restored is the rows
\* M[0] .. M[message_size - 1] one after the other, 53 octets a row, each
\* octet most significant bit first: message_size * 424 bits, of which all
\* but the header bits are the body handed to the parser.
C29_DecodedStringIsRowsOfM ==
    call.op = "decoded_message_type_1" =>
        /\ Len(call.decoded_message_type_1) = call.message_size * PageBits
        /\ \A row \in 0..(call.message_size - 1) :
               \A col \in 0..(GALILEO_CNAV_OCTETS_IN_SUBPAGE - 1) : \A b \in 0..7 :
                   call.decoded_message_type_1[row * PageBits + col * 8 + b + 1] =
                       BitOfOctet(call.M[row + 1][col + 1], b)
        /\ Len(SubSeq(call.decoded_message_type_1, GALILEO_CNAV_MT1_HEADER_BITS + 1,
                      Len(call.decoded_message_type_1))) =
               call.message_size * PageBits - GALILEO_CNAV_MT1_HEADER_BITS

\* A message of two pages whose rows differ
C29_Witness ==
    /\ call.op = "decoded_message_type_1"
    /\ call.message_size = 2
    /\ call.M[1] = Symbol(MsgClean, 1) /\ call.M[2] = Symbol(MsgClean, 2)
    /\ call.decoded_message_type_1 = SubSeq(MsgClean.bits, 1, 2 * PageBits)

\* The slot of message id mid has no page id twice and not the page id 0
SlotWellFormed(mid) ==
    /\ Cardinality(PidSet(d_received_pids[mid])) = Len(d_received_pids[mid])
    /\ 0 \notin PidSet(d_received_pids[mid])

\* The slot of message id mid grows by the page id of the page this
\* invocation handles
SlotGrows(mid) ==
    d_received_pids'[mid] = Append(d_received_pids[mid], ev'.page.message_page_id)

\* C30: in every reachable state the slot of every message id holds no page
\* id twice and never the page id 0, and a page id enters a slot only with a
\* page of that message id that passed the screening (status 0 or 1,
\* message type 1): a slot is left as it is, emptied, or grows by such a
\* page's id.
C30_SlotsHoldScreenedPids ==
    /\ [](\A mid \in MessageIds : SlotWellFormed(mid))
    /\ [][\A mid \in MessageIds :
             \/ d_received_pids'[mid] = d_received_pids[mid]
             \/ d_received_pids'[mid] = << >>
             \/ /\ SlotGrows(mid)
                /\ ev'.kind = "page"
                /\ ev'.page.message_id = mid
                /\ ev'.page.has_status \in {0, 1}
                /\ ev'.page.message_type = 1
                /\ ev'.page.message_page_id # 0]_vars

\* A page that fails the screening has just been handled and the slot of
\* its message id holds the page received before it and nothing else
C30_Witness ==
    /\ feed = "screen"
    /\ ev.kind = "page" /\ ~ev.accepted
    /\ ev.page.has_status = 2 /\ ev.page.message_id = 0 /\ ev.page.message_page_id = 2
    /\ d_received_pids[0] = <<1>>

\* The rows of the slot of message id mid that are not zero belong to page
\* ids of its list
RowsOfReceivedPids(mid) ==
    \A idx \in DOMAIN d_C_matrix[mid] :
        d_C_matrix[mid][idx] = ZeroRow \/ (idx + 1) \in PidSet(d_received_pids[mid])

\* Page id p of the slot of message id mid was there before this invocation
\* and its row is as it was, or it is the page id of the page in hand and
\* the row holds the 53 octets of that page's payload
RowOfFirstPage(mid, p) ==
    IF p \in PidSet(d_received_pids[mid])
    THEN CRow(d_C_matrix'[mid], p - 1) = CRow(d_C_matrix[mid], p - 1)
    ELSE /\ ev'.page.message_id = mid
         /\ ev'.page.message_page_id = p
         /\ CRow(d_C_matrix'[mid], p - 1) = PageOctets(ev'.payload)

\* C31: while the block's thread runs, in every state and for every message
\* id, the row of every page id that is not in the slot's list is zero, and
\* the row of a page id in the list holds the payload of the first page
\* accepted with that page id: it is written when the page id enters the
\* list and stays as it is for as long as the page id is in the list.
C31_RowsHoldFirstPayload ==
    /\ [](~fault => \A mid \in MessageIds : RowsOfReceivedPids(mid))
    /\ [][~fault' => \A mid \in MessageIds :
                         \A p \in PidSet(d_received_pids'[mid]) : RowOfFirstPage(mid, p)]_vars

\* The page that could not be decoded is in the slot, and the page sent
\* again with the same page id and the right payload has just been dropped
C31_Witness ==
    /\ feed = "rsfail" /\ ~fault
    /\ ev.kind = "page" /\ ~ev.accepted
    /\ ev.page.message_page_id = MsgClean.size
    /\ ev.payload = RowBits(Symbol(MsgClean, MsgClean.size))
    /\ MsgClean.size \in PidSet(d_received_pids[2])
    /\ CRow(d_C_matrix[2], MsgClean.size - 1) = CorruptRow

\* The pages of message id mid among ids, in the order they have there
PagesOfStream(ids, mid) == SelectSeq(ids, LAMBDA id : id[1] = mid)

\* All pages of message id mid are among ids, and the place of the last one
StreamComplete(ids, mid) ==
    \A has_page \in PagesStreams :
        has_page.message_id = mid => \E j \in 1..Len(ids) : ids[j] = PageId(has_page)

CompletedAt(ids, mid) ==
    CHOOSE j \in 0..Len(ids) :
        /\ j > 0 => ids[j][1] = mid
        /\ \A k \in (j + 1)..Len(ids) : ids[k][1] # mid

\* The message id whose message is complete first in ids
FirstStream(ids) ==
    IF StreamComplete(ids, StreamOfCorr)
       /\ (StreamComplete(ids, StreamOfMask)
              => CompletedAt(ids, StreamOfCorr) < CompletedAt(ids, StreamOfMask))
    THEN StreamOfCorr ELSE StreamOfMask

OtherStream(mid) == IF mid = StreamOfMask THEN StreamOfCorr ELSE StreamOfMask

\* The same pages delivered one message after the other, the message of
\* message id mid first
OneAfterTheOther(ids, mid) == PagesOfStream(ids, mid) \o PagesOfStream(ids, OtherStream(mid))

\* What the decode of the message of message id mid gave in st
ResultsOf(st, mid) == SelectSeq(st.results, LAMBDA r : r.message_id = mid)

\* The receiver is where the same pages leave it when they are delivered one
\* message after the other, in the order in which the messages end; the
\* decode this invocation ran gave what the decode of that message gives
\* then, and it restored the same message in whichever order the two
\* messages are delivered
AsOneAfterTheOther ==
    LET ids == call.delivered
        inorder == ProcessAll(Constructed, OneAfterTheOther(ids, FirstStream(ids)))
        reverse == ProcessAll(Constructed, OneAfterTheOther(ids, OtherStream(FirstStream(ids))))
        mid == ev.page.message_id
    IN  /\ d_received_pids = inorder.pids
        /\ d_C_matrix = inorder.C
        /\ d_mask = inorder.mask
        /\ d_HAS_data = inorder.data
        /\ ev.called =>
               /\ ResultsOf(inorder, mid)
                      = <<[message_id |-> mid, nerasures |-> ev.dec.nerasures,
                           outcome |-> ev.dec.outcome, decoded |-> ev.dec.decoded,
                           published |-> ev.published]>>
               /\ Len(ResultsOf(reverse, mid)) = 1
               /\ ResultsOf(reverse, mid)[1].nerasures = ev.dec.nerasures
               /\ ResultsOf(reverse, mid)[1].decoded = ev.dec.decoded

C33_SlotNeverOverfull ==
    \A mid \in MessageIds : Len(d_received_pids[mid]) <= GALILEO_CNAV_INFORMATION_VECTOR_LENGTH

\* The satellites in the satellite masks of the systems the cache entry of
\* mask id m counts (slots 0 .. Nsys - 1)
CachedSatellites(m) ==
    SatellitesIn([j \in 1..d_mask.d_nsys_in_mask[m] |->
                     IF (j - 1) \in DOMAIN d_mask.d_satellite_mask[m]
                     THEN d_mask.d_satellite_mask[m][j - 1]
                     ELSE Zeros(HAS_MSG_SATELLITE_MASK_LENGTH)])

\* C34: in every reachable state and for every mask id, the cached Nsat is
\* 0, or the cached Nsys is at least 1 and the cached Nsat is the number of
\* bits set in the cached satellite masks of the systems 0 .. Nsys - 1.
C34_CachedNsatIsPopcount ==
    \A m \in MaskIds :
        \/ d_mask.d_nsat_in_mask_id[m] = 0
        \/ /\ d_mask.d_nsys_in_mask[m] >= 1
           /\ d_mask.d_nsat_in_mask_id[m] = CachedSatellites(m)

\* C35: every record published on E6_HAS_to_PVT carries a mask: Nsys >= 1
\* and satellite masks whose set bits number Nsat, which is not 0 and is the
\* Nsat cached for the record's mask id; a message parsed without a mask
\* (mask_flag = 1 with Nsys = 0, say) is not published.
C35_PublishedRecordHasMask ==
    \A j \in 1..Len(ev.published) :
        /\ ev.published[j].Nsys >= 1
        /\ Len(ev.published[j].satellite_mask) = ev.published[j].Nsys
        /\ SatellitesIn(ev.published[j].satellite_mask) # 0
        /\ SatellitesIn(ev.published[j].satellite_mask)
              = d_mask.d_nsat_in_mask_id[ev.published[j].header.mask_id]

\* The mask tables with the entry of mask id m as it is and the entries of
\* all other mask ids as the constructor left them
MaskEntryOnly(mask, m) ==
    [d_nsat_in_mask_id |->
        [MaskTablesInit.d_nsat_in_mask_id EXCEPT ![m] = mask.d_nsat_in_mask_id[m]],
     d_nsys_in_mask |->
        [MaskTablesInit.d_nsys_in_mask EXCEPT ![m] = mask.d_nsys_in_mask[m]],
     d_gnss_id_in_mask |->
        [MaskTablesInit.d_gnss_id_in_mask EXCEPT ![m] = mask.d_gnss_id_in_mask[m]],
     d_satellite_mask |->
        [MaskTablesInit.d_satellite_mask EXCEPT ![m] = mask.d_satellite_mask[m]],
     d_signal_mask |->
        [MaskTablesInit.d_signal_mask EXCEPT ![m] = mask.d_signal_mask[m]],
     d_cell_mask_availability_flag |->
        [MaskTablesInit.d_cell_mask_availability_flag EXCEPT ![m] = mask.d_cell_mask_availability_flag[m]],
     d_cell_mask |->
        [MaskTablesInit.d_cell_mask EXCEPT ![m] = mask.d_cell_mask[m]],
     d_nav_message_mask |->
        [MaskTablesInit.d_nav_message_mask EXCEPT ![m] = mask.d_nav_message_mask[m]]]

\* The message this invocation parsed gives, with what orc has for the
\* reads outside owned storage, the d_HAS_data and the entry of mask id m it
\* gave when the entries of all other mask ids are empty
ParsedFromEntryWith(m, orc) ==
    \E st \in {ParseMessage(ev'.dec.decoded, MaskEntryOnly(d_mask, m), orc)} :
        /\ st.data = d_HAS_data'
        /\ \A table \in DOMAIN d_mask : st.mask[table][m] = d_mask'[table][m]

\* read_MT1_body consults gnss_id and sat_pop only
ParsedFromEntry(m) ==
    \/ ParsedFromEntryWith(m, NoOracle)
    \/ \E orc \in OraclesOver({"gnss_id", "sat_pop"}) : ParsedFromEntryWith(m, orc)

\* C36: a message whose header carries mask id m is parsed from the cache
\* entry of m alone and writes to that entry alone: the cached Nsys, Nsat
\* and per-system tables of every other mask id are as they were, whether
\* the parse succeeds, evicts the entry or fails; an invocation that parses
\* no message leaves all entries as they were.
C36_OtherMaskEntriesUntouched ==
    [][ev'.kind = "page" =>
          IF ev'.dec.decoded = << >> THEN d_mask' = d_mask
          ELSE /\ \A m \in MaskIds \ {DecodedHeader'.mask_id} :
                      \A table \in DOMAIN d_mask : d_mask'[table][m] = d_mask[table][m]
               /\ ParsedFromEntry(DecodedHeader'.mask_id)]_vars

\* The entry of mask id 3 has just been evicted by a message with a time of
\* hour out of range, while the entries of mask ids 6 and 7 hold masks
C36_Witness ==
    /\ feed = "masks"
    /\ ev.kind = "page" /\ ev.dec.outcome = "ok"
    /\ DecodedHeader.mask_id = 3 /\ DecodedHeader.toh > HAS_MSG_NUMBER_MAX_TOH
    /\ d_mask.d_nsat_in_mask_id[3] = 0 /\ d_mask.d_nsys_in_mask[3] = 1
    /\ d_mask.d_nsat_in_mask_id[6] = 1
    /\ d_mask.d_nsat_in_mask_id[7] = 2

\* The last invocation parsed a message as far as the code bias or the
\* phase bias block, under a mask in effect
BiasBlockRead ==
    /\ ev.kind = "page" /\ ev.dec.outcome \in {"ok", "fault"}
    /\ DecodedHeader.code_bias_flag \/ DecodedHeader.phase_bias_flag
    /\ DecodedHeader.toh <= HAS_MSG_NUMBER_MAX_TOH
    /\ ~(DecodedHeader.clock_subset_flag /\ d_HAS_data.Nsysprime = 0)
    /\ DecodedHeader.mask_flag => SatellitesIn(d_HAS_data.satellite_mask) # 0

\* C37: in the code bias and the phase bias block the parser indexes
\* cell_mask[sys][s][c] inside the cell mask of the mask in effect only: a
\* system whose cell mask availability flag is set has a cell mask with a
\* row 0 to take the number of signals from (its satellite mask has a bit
\* set).
C37_CellMaskIndexedInRange ==
    BiasBlockRead =>
        \A sys \in 1..d_HAS_data.Nsys :
            d_HAS_data.cell_mask_availability_flag[sys] =>
                /\ sys <= Len(d_HAS_data.cell_mask)
                /\ d_HAS_data.cell_mask[sys].rows >= 1

\* The last invocation parsed a clock subset block to its end
SubsetBlockRead ==
    /\ ev.kind = "page" /\ ev.dec.outcome \in {"ok", "fault"}
    /\ DecodedHeader.clock_subset_flag
    /\ d_HAS_data.Nsysprime >= 1

\* C38: the clock subset block reads satellite_mask[i] for the systems
\* i < Nsys of the mask in effect only, whatever Nsysprime the message
\* carries: the loop, which reads satellite_mask[i] for every i < Nsysprime,
\* does not run beyond Nsys.
C38_SubsetReadsMaskInRange ==
    SubsetBlockRead => d_HAS_data.Nsysprime <= Len(d_HAS_data.satellite_mask)

=============================================================================
